---- MODULE Spec2Model ----
(***************************************************************************)
(* Water-meter reading extraction: the rule-based pipeline and its          *)
(* think/act loop, as implemented by WaterMeterAgent (water_meter_agent.py) *)
(* and LocalLangChainStyleAgent (local_langchain_style_agent.py).           *)
(*                                                                          *)
(* Texts are sequences of one-character strings.  Python's None is the      *)
(* empty tuple and a present value v is <<v>>.  Reading values are kept in  *)
(* hundredths, confidence in ten-thousandths.                               *)
(***************************************************************************)
EXTENDS Integers, Sequences, FiniteSets, TLC

VARIABLES now, raw, calls, pc, step, st, decisions, hist, hist0, result, prev, lc, conc, voice

vars == <<now, raw, calls, pc, step, st, decisions, hist, hist0, result, prev, lc, conc, voice>>

(***************************************************************************)
(* Bounds of the model.                                                     *)
(***************************************************************************)
MaxCalls == 2
MaxFrags == 2

(***************************************************************************)
(* Characters.                                                              *)
(***************************************************************************)
DigitChars == <<"0", "1", "2", "3", "4", "5", "6", "7", "8", "9">>
LowerChars == <<"a", "b", "c", "d", "e", "f", "g", "h", "i", "j", "k", "l", "m",
                "n", "o", "p", "q", "r", "s", "t", "u", "v", "w", "x", "y", "z">>
UpperChars == <<"A", "B", "C", "D", "E", "F", "G", "H", "I", "J", "K", "L", "M",
                "N", "O", "P", "Q", "R", "S", "T", "U", "V", "W", "X", "Y", "Z">>

Range(s) == {s[i] : i \in 1..Len(s)}

IsDigit(c) == c \in Range(DigitChars)
DigitVal(c) == (CHOOSE i \in 1..Len(DigitChars) : DigitChars[i] = c) - 1
IsSpace(c) == c \in {" ", "\t", "\n"}
IsWord(c) == c \in Range(DigitChars) \cup Range(LowerChars) \cup Range(UpperChars) \cup {"_"}

\* str.upper() on one character
UpperChar(c) ==
    IF c \in Range(LowerChars)
    THEN UpperChars[CHOOSE i \in 1..Len(LowerChars) : LowerChars[i] = c]
    ELSE c

\* Python's None / a present value
None == <<>>
Some(v) == <<v>>
IsNone(x) == x = <<>>
Val(x) == x[1]

\* `key in text`
Contains(text, key) ==
    \E i \in 0..(Len(text) - Len(key)) : SubSeq(text, i + 1, i + Len(key)) = key

(***************************************************************************)
(* clean_text_tool                                                          *)
(***************************************************************************)
RECURSIVE LStrip(_)
LStrip(s) == IF s # <<>> /\ IsSpace(Head(s)) THEN LStrip(Tail(s)) ELSE s

RECURSIVE RStrip(_)
RStrip(s) ==
    IF s # <<>> /\ IsSpace(s[Len(s)]) THEN RStrip(SubSeq(s, 1, Len(s) - 1)) ELSE s

\* str.strip()
Strip(s) == RStrip(LStrip(s))

\* re.sub(r'\s+', ' ', s): every run of whitespace becomes one space
RECURSIVE CollapseSpaces(_)
CollapseSpaces(s) ==
    IF s = <<>> THEN <<>>
    ELSE IF IsSpace(Head(s))
         THEN <<" ">> \o CollapseSpaces(LStrip(s))
         ELSE <<Head(s)>> \o CollapseSpaces(Tail(s))

\* the class [^\w\s\.\-:/]
IsSpecial(c) == ~(IsWord(c) \/ IsSpace(c) \/ c \in {".", "-", ":", "/"})

\* re.sub(r'[^\w\s\.\-:/]', ' ', s)
ReplaceSpecial(s) == [i \in 1..Len(s) |-> IF IsSpecial(s[i]) THEN " " ELSE s[i]]

Upper(s) == [i \in 1..Len(s) |-> UpperChar(s[i])]

clean_text_tool(raw_text) == Upper(ReplaceSpecial(CollapseSpaces(Strip(raw_text))))

(***************************************************************************)
(* Regular expressions of the tools: a pattern is a sequence of items       *)
(* [cls, lo, hi, inf]: between lo and hi (or any number, when inf)          *)
(* characters of class cls, "\\d" or a literal character, matched greedily  *)
(* with backtracking as Python's re does.                                   *)
(***************************************************************************)
D(lo, hi) == [cls |-> "\\d", lo |-> lo, hi |-> hi, inf |-> FALSE]
DMany(lo) == [cls |-> "\\d", lo |-> lo, hi |-> lo, inf |-> TRUE]
Lit(c) == [cls |-> c, lo |-> 1, hi |-> 1, inf |-> FALSE]
Opt(c) == [cls |-> c, lo |-> 0, hi |-> 1, inf |-> FALSE]

ClassMatch(item, c) == IF item.cls = "\\d" THEN IsDigit(c) ELSE c = item.cls

\* how many characters from pos on the item can take at most
RECURSIVE MaxRun(_, _, _, _)
MaxRun(item, text, pos, n) ==
    IF (item.inf \/ n < item.hi) /\ pos + n <= Len(text) /\ ClassMatch(item, text[pos + n])
    THEN MaxRun(item, text, pos, n + 1)
    ELSE n

\* match of pat[k..] at position pos: the position after the match, 0 when none
RECURSIVE MatchAt(_, _, _, _)
RECURSIVE TryRep(_, _, _, _, _)
MatchAt(pat, k, text, pos) ==
    IF k > Len(pat) THEN pos
    ELSE TryRep(pat, k, text, pos, MaxRun(pat[k], text, pos, 0))

TryRep(pat, k, text, pos, n) ==
    IF n < pat[k].lo THEN 0
    ELSE LET r == MatchAt(pat, k + 1, text, pos + n)
         IN  IF r # 0 THEN r ELSE TryRep(pat, k, text, pos, n - 1)

\* re.search from position s: <<start, end>> of the leftmost match, <<>> when none
RECURSIVE Search(_, _, _)
Search(pat, text, s) ==
    IF s > Len(text) + 1 THEN <<>>
    ELSE LET e == MatchAt(pat, 1, text, s)
         IN  IF e # 0 THEN <<s, e>> ELSE Search(pat, text, s + 1)

\* re.findall: the non-overlapping matches, left to right
RECURSIVE FindAll(_, _, _)
FindAll(pat, text, s) ==
    LET m == Search(pat, text, s)
    IN  IF m = <<>> THEN <<>>
        ELSE <<SubSeq(text, m[1], m[2] - 1)>>
                 \o FindAll(pat, text, IF m[2] > m[1] THEN m[2] ELSE m[2] + 1)

(***************************************************************************)
(* extract_numbers_tool.  float(match) in hundredths (the inputs of the     *)
(* model carry at most two fractional digits).                              *)
(***************************************************************************)
RECURSIVE DigitsToNat(_)
DigitsToNat(s) ==
    IF s = <<>> THEN 0
    ELSE DigitsToNat(SubSeq(s, 1, Len(s) - 1)) * 10 + DigitVal(s[Len(s)])

DotPos(s) == IF "." \in Range(s) THEN CHOOSE i \in 1..Len(s) : s[i] = "." ELSE Len(s) + 1

ParseFloat(tok) ==
    LET dot  == DotPos(tok)
        ip   == SubSeq(tok, 1, dot - 1)
        fp   == SubSeq(tok, dot + 1, Len(tok))
        d1   == IF Len(fp) >= 1 THEN DigitVal(fp[1]) ELSE 0
        d2   == IF Len(fp) >= 2 THEN DigitVal(fp[2]) ELSE 0
    IN  DigitsToNat(ip) * 100 + d1 * 10 + d2

\* r'\d+\.?\d*'
NumberPattern == <<DMany(1), Opt("."), DMany(0)>>

extract_numbers_tool(text) ==
    LET matches == FindAll(NumberPattern, text, 1)
    IN  [i \in 1..Len(matches) |-> ParseFloat(matches[i])]

\* max(numbers)
MaxOf(numbers) == CHOOSE x \in Range(numbers) : \A y \in Range(numbers) : y <= x

\* decimal digits of a natural number, zero-padded to width
RECURSIVE NatToChars(_, _)
NatToChars(n, width) ==
    IF width <= 1 /\ n < 10 THEN <<DigitChars[n + 1]>>
    ELSE NatToChars(n \div 10, width - 1) \o <<DigitChars[(n % 10) + 1]>>

\* str(float) as used in f-strings: 150.5, 2025.0, 0.25
FormatFloat(v) ==
    LET ip == NatToChars(v \div 100, 1)
        f  == v % 100
    IN  ip \o <<".">> \o (IF f % 10 = 0 THEN NatToChars(f \div 10, 1) ELSE NatToChars(f, 2))

(***************************************************************************)
(* difflib.SequenceMatcher(None, a, b).ratio().  Indices are Python's:      *)
(* 0-based, half-open.  The texts are shorter than 200 characters, so the   *)
(* automatic junk heuristic never applies.                                  *)
(***************************************************************************)
RECURSIVE CommonLen(_, _, _, _, _, _)
CommonLen(a, i, ahi, b, j, bhi) ==
    IF i < ahi /\ j < bhi /\ a[i + 1] = b[j + 1]
    THEN 1 + CommonLen(a, i + 1, ahi, b, j + 1, bhi)
    ELSE 0

\* <<i, j, k>>: the longest block a[i:i+k] = b[j:j+k], the earliest in a,
\* then the earliest in b; <<alo, blo, 0>> when nothing matches
find_longest_match(a, b, alo, ahi, blo, bhi) ==
    LET len   == [i \in alo..(ahi - 1), j \in blo..(bhi - 1) |->
                     CommonLen(a, i, ahi, b, j, bhi)]
        sizes == {len[i, j] : i \in alo..(ahi - 1), j \in blo..(bhi - 1)}
        k     == CHOOSE x \in sizes : \A y \in sizes : y <= x
        besti == CHOOSE i \in alo..(ahi - 1) :
                     /\ \E j \in blo..(bhi - 1) : len[i, j] = k
                     /\ \A i2 \in alo..(i - 1) : \A j \in blo..(bhi - 1) : len[i2, j] # k
        bestj == CHOOSE j \in blo..(bhi - 1) :
                     /\ len[besti, j] = k
                     /\ \A j2 \in blo..(j - 1) : len[besti, j2] # k
    IN  IF alo >= ahi \/ blo >= bhi \/ k = 0 THEN <<alo, blo, 0>> ELSE <<besti, bestj, k>>

\* the sum of the sizes of get_matching_blocks(): the block m = <<i, j, k>>
\* found in a[alo:ahi], b[blo:bhi], then the pieces left and right of it
RECURSIVE MatchTotal(_, _, _, _, _, _)
RECURSIVE BlockTotal(_, _, _, _, _, _, _)
MatchTotal(a, b, alo, ahi, blo, bhi) ==
    BlockTotal(a, b, alo, ahi, blo, bhi, find_longest_match(a, b, alo, ahi, blo, bhi))

BlockTotal(a, b, alo, ahi, blo, bhi, m) ==
    IF m[3] = 0 THEN 0
    ELSE m[3] + (IF alo < m[1] /\ blo < m[2] THEN MatchTotal(a, b, alo, m[1], blo, m[2]) ELSE 0)
              + (IF m[1] + m[3] < ahi /\ m[2] + m[3] < bhi
                 THEN MatchTotal(a, b, m[1] + m[3], ahi, m[2] + m[3], bhi) ELSE 0)

\* 2.0 * matches / (len(a) + len(b)), kept as a fraction; 1.0 for two empty strings
ratio(a, b) ==
    IF Len(a) + Len(b) = 0 THEN [num |-> 1, den |-> 1]
    ELSE [num |-> 2 * MatchTotal(a, b, 0, Len(a), 0, Len(b)), den |-> Len(a) + Len(b)]

ScoreGT(x, y) == x.num * y.den > y.num * x.den
ScoreGE(x, y) == x.num * y.den >= y.num * x.den

\* threshold: float = 0.6
Threshold == [num |-> 6, den |-> 10]
ZeroScore == [num |-> 0, den |-> 1]

(***************************************************************************)
(* Knowledge base.  A dictionary is the sequence of its items in insertion  *)
(* order: key (as text), name (the key as a string) and value.              *)
(***************************************************************************)
meter_tags ==
    << [key |-> <<"W", "M", "0", "0", "1">>, name |-> "WM001", value |-> "Kitchen Water Meter"],
       [key |-> <<"W", "M", "0", "0", "2">>, name |-> "WM002", value |-> "Bathroom Water Meter"],
       [key |-> <<"W", "M", "0", "0", "3">>, name |-> "WM003", value |-> "Garden Water Meter"],
       [key |-> <<"W", "M", "0", "0", "4">>, name |-> "WM004", value |-> "Main Water Supply"],
       [key |-> <<"W", "M", "0", "0", "5">>, name |-> "WM005", value |-> "Hot Water Heater"] >>

name_to_tag ==
    << [key |-> <<"K", "I", "T", "C", "H", "E", "N">>, name |-> "KITCHEN", value |-> "WM001"],
       [key |-> <<"B", "A", "T", "H">>, name |-> "BATH", value |-> "WM002"],
       [key |-> <<"B", "A", "T", "H", "R", "O", "O", "M">>, name |-> "BATHROOM", value |-> "WM002"],
       [key |-> <<"G", "A", "R", "D", "E", "N">>, name |-> "GARDEN", value |-> "WM003"],
       [key |-> <<"Y", "A", "R", "D">>, name |-> "YARD", value |-> "WM003"],
       [key |-> <<"M", "A", "I", "N">>, name |-> "MAIN", value |-> "WM004"],
       [key |-> <<"S", "U", "P", "P", "L", "Y">>, name |-> "SUPPLY", value |-> "WM004"],
       [key |-> <<"H", "E", "A", "T", "E", "R">>, name |-> "HEATER", value |-> "WM005"],
       [key |-> <<"H", "O", "T">>, name |-> "HOT", value |-> "WM005"] >>

CanonicalTags == {meter_tags[i].name : i \in 1..Len(meter_tags)}

\* dict.get(key, default)
DictGet(dict, key, default) ==
    IF \E i \in 1..Len(dict) : dict[i].name = key
    THEN dict[CHOOSE i \in 1..Len(dict) : dict[i].name = key].value
    ELSE default

(***************************************************************************)
(* fuzzy_match_tool: the loop over dictionary.keys() from item k on.        *)
(* Returns the matched KEY (as Some(name)) or None.                         *)
(***************************************************************************)
\* a variant in which an equal score replaces the match kept so far
Better_or_equal(score, best_score) == ScoreGE(score, best_score) /\ ScoreGE(score, Threshold)

\* score > best_score and score >= threshold
Better(score, best_score) == ScoreGT(score, best_score) /\ ScoreGE(score, Threshold)

RECURSIVE FuzzyLoop(_, _, _, _, _)
RECURSIVE FuzzyScored(_, _, _, _, _, _)
FuzzyLoop(text, dict, k, best_match, best_score) ==
    IF k > Len(dict) THEN best_match
    ELSE IF Contains(text, dict[k].key) THEN Some(dict[k].name)
    ELSE FuzzyScored(text, dict, k, best_match, best_score, ratio(dict[k].key, text))

\* the rest of the iteration on item k, whose similarity to text is score
FuzzyScored(text, dict, k, best_match, best_score, score) ==
    IF Better(score, best_score)
    THEN FuzzyLoop(text, dict, k + 1, Some(dict[k].name), score)
    ELSE FuzzyLoop(text, dict, k + 1, best_match, best_score)

fuzzy_match_tool(text, dict) == FuzzyLoop(text, dict, 1, None, ZeroScore)

(***************************************************************************)
(* MeterIdentificationTool.run of the local agent.                          *)
(***************************************************************************)
\* the first item of dict whose key is a substring of text, 0 when none
FirstContained(text, dict) ==
    IF \E k \in 1..Len(dict) : Contains(text, dict[k].key)
    THEN CHOOSE k \in 1..Len(dict) :
             /\ Contains(text, dict[k].key)
             /\ \A k2 \in 1..(k - 1) : ~Contains(text, dict[k2].key)
    ELSE 0

\* the similarity loops: <<best_match, best_score>> after items k.. of dict;
\* asTag tells whether the match recorded is the key (tags) or its value (names)
RECURSIVE BestFuzzy(_, _, _, _, _, _)
RECURSIVE BestScored(_, _, _, _, _, _, _)
BestFuzzy(text, dict, k, asTag, best_match, best_score) ==
    IF k > Len(dict) THEN <<best_match, best_score>>
    ELSE BestScored(text, dict, k, asTag, best_match, best_score, ratio(dict[k].key, text))

BestScored(text, dict, k, asTag, best_match, best_score, score) ==
    IF Better(score, best_score)
    THEN BestFuzzy(text, dict, k + 1, asTag,
                   Some(IF asTag THEN dict[k].name ELSE dict[k].value), score)
    ELSE BestFuzzy(text, dict, k + 1, asTag, best_match, best_score)

\* the name part of run: exact name match named, similarity over names byName
NameChoice(named, byName) ==
    IF named # 0 THEN name_to_tag[named].value
    ELSE IF ~IsNone(byName[1]) THEN Val(byName[1])
    ELSE "UNKNOWN"

\* the tag part of run: exact tag match direct, similarity over tags byTag
TagChoice(text, direct, byTag) ==
    IF direct # 0 THEN meter_tags[direct].name
    ELSE IF ~IsNone(byTag[1]) THEN Val(byTag[1])
    ELSE NameChoice(FirstContained(text, name_to_tag),
                    BestFuzzy(text, name_to_tag, 1, FALSE, byTag[1], byTag[2]))

MeterIdentificationTool_run(text) ==
    TagChoice(text, FirstContained(text, meter_tags),
              BestFuzzy(text, meter_tags, 1, TRUE, None, ZeroScore))

(***************************************************************************)
(* standardize_unit_tool                                                    *)
(***************************************************************************)
unit_map ==
    << [variant |-> <<"C", "U", " ", "M">>, standard |-> "cubic_meters"],
       [variant |-> <<"C", "U", "B", "I", "C", " ", "M">>, standard |-> "cubic_meters"],
       [variant |-> <<"M", "3">>, standard |-> "cubic_meters"],
       [variant |-> <<"C", "U", "B", "I", "C", " ", "M", "E", "T", "E", "R">>,
        standard |-> "cubic_meters"],
       [variant |-> <<"C", "U", "B", "I", "C", " ", "M", "E", "T", "E", "R", "S">>,
        standard |-> "cubic_meters"],
       [variant |-> <<"G", "A", "L">>, standard |-> "gallons"],
       [variant |-> <<"G", "A", "L", "L", "O", "N">>, standard |-> "gallons"],
       [variant |-> <<"G", "A", "L", "L", "O", "N", "S">>, standard |-> "gallons"],
       [variant |-> <<"L">>, standard |-> "liters"],
       [variant |-> <<"L", "I", "T", "E", "R">>, standard |-> "liters"],
       [variant |-> <<"L", "I", "T", "E", "R", "S">>, standard |-> "liters"] >>

\* a variant that passes over the variants of a single letter
RECURSIVE UnitLoop_words_only(_, _)
UnitLoop_words_only(text, k) ==
    IF k > Len(unit_map) THEN "cubic_meters"
    ELSE IF Len(unit_map[k].variant) > 1 /\ Contains(text, unit_map[k].variant)
         THEN unit_map[k].standard
    ELSE UnitLoop_words_only(text, k + 1)

RECURSIVE UnitLoop(_, _)
UnitLoop(text, k) ==
    IF k > Len(unit_map) THEN "cubic_meters"
    ELSE IF Contains(text, unit_map[k].variant) THEN unit_map[k].standard
    ELSE UnitLoop(text, k + 1)

\* a variant that returns the abbreviation L instead of its standard name
standardize_unit_tool_abbreviated(text) ==
    IF UnitLoop(text, 1) = "liters" THEN "L" ELSE UnitLoop(text, 1)

standardize_unit_tool(text) == UnitLoop(text, 1)

(***************************************************************************)
(* validate_range_tool: bounds in hundredths.                               *)
(***************************************************************************)
\* a variant whose ranges start at 1.0
ranges_from_one ==
    << [unit |-> "cubic_meters", min |-> 100, max |-> 1000 * 100],
       [unit |-> "gallons", min |-> 100, max |-> 264000 * 100],
       [unit |-> "liters", min |-> 100, max |-> 1000000 * 100] >>

ranges ==
    << [unit |-> "cubic_meters", min |-> 0, max |-> 1000 * 100],
       [unit |-> "gallons", min |-> 0, max |-> 264000 * 100],
       [unit |-> "liters", min |-> 0, max |-> 1000000 * 100] >>

KnownUnit(unit) == \E i \in 1..Len(ranges) : ranges[i].unit = unit
RangeOf(unit) == ranges[CHOOSE i \in 1..Len(ranges) : ranges[i].unit = unit]

\* "VALID", "OUT_OF_RANGE" or "UNKNOWN_UNIT"
RangeVerdict(value, unit) ==
    IF ~KnownUnit(unit) THEN "UNKNOWN_UNIT"
    ELSE IF RangeOf(unit).min <= value /\ value <= RangeOf(unit).max THEN "VALID"
    ELSE "OUT_OF_RANGE"

\* a warning: its text and the values formatted into it
Warn(msg) == [msg |-> msg, args |-> <<>>]
WarnRange(msg, value, unit) == [msg |-> msg, args |-> <<FormatFloat(value), <<unit>>>>]

\* WaterMeterAgent: (is_valid, message)
validate_range_tool(value, unit) ==
    LET v == RangeVerdict(value, unit)
    IN  IF v = "UNKNOWN_UNIT"
        THEN [is_valid |-> TRUE,
              message |-> [msg |-> "Unknown unit '{unit}' - cannot validate range",
                           args |-> <<<<unit>>>>]]
        ELSE IF v = "VALID"
        THEN [is_valid |-> TRUE,
              message |-> WarnRange("Value {value} {unit} is within expected range", value, unit)]
        ELSE [is_valid |-> FALSE,
              message |-> WarnRange("Value {value} {unit} is outside expected range ({description})",
                                    value, unit)]

\* local agent: the input is f"{value},{unit}", split again at the comma
ValidateRangeTool_run(valueText, unit) == RangeVerdict(ParseFloat(valueText), unit)

(***************************************************************************)
(* parse_date_tool.  A date is [y, m, d]; the outcome is the text of the    *)
(* date, or the ValueError of datetime.replace(day=0).                      *)
(***************************************************************************)
date_patterns ==
    << <<D(4, 4), Lit("-"), D(2, 2), Lit("-"), D(2, 2)>>,
       <<D(2, 2), Lit("/"), D(2, 2), Lit("/"), D(4, 4)>>,
       <<D(1, 2), Lit("/"), D(1, 2), Lit("/"), D(4, 4)>>,
       <<D(2, 2), Lit("-"), D(2, 2), Lit("-"), D(4, 4)>> >>

\* strftime('%Y-%m-%d')
FormatDate(d) ==
    NatToChars(d.y, 4) \o <<"-">> \o NatToChars(d.m, 2) \o <<"-">> \o NatToChars(d.d, 2)

TODAY == <<"T", "O", "D", "A", "Y">>
YESTERDAY == <<"Y", "E", "S", "T", "E", "R", "D", "A", "Y">>

Returned(v) == [raised |-> FALSE, value |-> v]
Raised(e) == [raised |-> TRUE, value |-> e]

\* datetime.now().replace(day=datetime.now().day - 1)
ReplaceDayBefore(today) ==
    IF today.d - 1 >= 1
    THEN Returned([today EXCEPT !.d = today.d - 1])
    ELSE Raised("day is out of range for month")

RECURSIVE PatternLoop(_, _)
PatternLoop(text, k) ==
    IF k > Len(date_patterns) THEN <<>>
    ELSE LET m == Search(date_patterns[k], text, 1)
         IN  IF m # <<>> THEN <<SubSeq(text, m[1], m[2] - 1)>> ELSE PatternLoop(text, k + 1)

\* a variant that looks for TODAY before it looks for a written date
parse_date_tool_today_first(text, today) ==
    IF Contains(text, TODAY) THEN Returned(FormatDate(today))
    ELSE LET found == PatternLoop(text, 1)
         IN  IF found # <<>> THEN Returned(found[1])
             ELSE IF Contains(text, YESTERDAY)
                  THEN LET y == ReplaceDayBefore(today)
                       IN  IF y.raised THEN y ELSE Returned(FormatDate(y.value))
             ELSE Returned(FormatDate(today))

parse_date_tool(text, today) ==
    LET found == PatternLoop(text, 1)
    IN  IF found # <<>> THEN Returned(found[1])
        ELSE IF Contains(text, TODAY) THEN Returned(FormatDate(today))
        ELSE IF Contains(text, YESTERDAY)
             THEN LET y == ReplaceDayBefore(today)
                  IN  IF y.raised THEN y ELSE Returned(FormatDate(y.value))
        ELSE Returned(FormatDate(today))

(***************************************************************************)
(* The two agents, run on the same input one after the other.               *)
(***************************************************************************)
WMA == "WaterMeterAgent"
LLA == "LocalLangChainStyleAgent"
Agents == {WMA, LLA}

max_steps == 8
HistoryCap == 100
HistoryKeep == 50

\* the state dictionary parse_reading starts from (tool_calls: local agent only)
FreshState(raw_input) ==
    [raw_input |-> raw_input, cleaned_text |-> None, meter_tag |-> None,
     reading_value |-> None, unit |-> None, date |-> None,
     warnings |-> <<>>, confidence |-> 0, tool_calls |-> <<>>]

NoResult == [kind |-> "none"]

(***************************************************************************)
(* Inputs: the raw texts are the phrases below, up to MaxFrags of them in   *)
(* this order, separated by one space, and the examples of the              *)
(* specification.  The clock reads one of Dates and never goes back.        *)
(***************************************************************************)
Fragments ==
    << <<" ", "\t", "!">>,
       <<"K", "i", "t", "c", "h", "e", "n">>,
       <<"W", "M", "0", "0", "3">>,
       <<"w", "m", "0", "0", "1">>,
       <<"W", "M", "0", "1">>,
       <<"a", "s", "d", "f", " ", "\t", "q", "w", "e", "r", " ">>,
       <<"1", "5", "0", ".", "5">>,
       <<"0">>,
       <<"y", "e", "s", "t", "e", "r", "d", "a", "y">>,
       <<"2", "0", "2", "5", "-", "0", "1", "-", "1", "5">> >>

RECURSIVE JoinFrags(_)
JoinFrags(S) ==
    IF S = {} THEN <<>>
    ELSE LET i == CHOOSE x \in S : \A y \in S : x <= y
         IN  IF S = {i} THEN Fragments[i]
             ELSE Fragments[i] \o <<" ">> \o JoinFrags(S \ {i})

\* the end-to-end examples of the specification
KitchenExample ==
    <<"K", "i", "t", "c", "h", "e", "n", " ", "m", "e", "t", "e", "r", " ", "r", "e",
    "a", "d", "i", "n", "g", " ", "i", "s", " ", "1", "5", "0", ".", "5", " ", "c",
    "u", "b", "i", "c", " ", "m", "e", "t", "e", "r", "s">>

NoiseExample ==
    <<"a", "s", "d", "f", " ", "q", "w", "e", "r">>

TodayExample ==
    <<"W", "M", "0", "0", "2", " ", "s", "h", "o", "w", "s", " ", "8", "9", ".", "3",
    " ", "g", "a", "l", "l", "o", "n", "s", " ", "t", "o", "d", "a", "y">>

DuplicateExample ==
    <<"W", "M", "0", "0", "1", " ", "1", "5", "0", " ", "c", "u", "b", "i", "c", " ",
    "m", "e", "t", "e", "r", "s", " ", "2", "0", "2", "5", "-", "0", "1", "-", "1",
    "5">>

\* further inputs of the comparison run
GardenExample ==
    <<"G", "a", "r", "d", "e", "n", " ", "w", "a", "t", "e", "r", " ", "m", "e", "t", "e",
    "r", ":", " ", "4", "5", ".", "7", " ", "l", "i", "t", "e", "r", "s", " ", "o", "n",
    " ", "2", "0", "2", "5", "-", "0", "1", "-", "1", "5">>

MainExample ==
    <<"M", "a", "i", "n", " ", "s", "u", "p", "p", "l", "y", " ", "r", "e", "a", "d", "i",
    "n", "g", " ", "2", "3", "4", ".", "8", " ", "m", "3">>

\* a unit variant inside another word
RoomExample ==
    <<"R", "o", "o", "m", "3", " ", "m", "e", "t", "e", "r", " ", "8", "9", " ", "g", "a",
    "l", "l", "o", "n", "s">>

\* several numbers, the largest last
NumbersExample ==
    <<"1", "2", " ", "5", ".", "5", " ", "2", "4", "0">>

\* dates in the other written forms, alone and in competition
IsoFirstExample ==
    <<"W", "M", "0", "0", "1", " ", "1", "5", "0", " ", "0", "1", "/", "1", "5", "/", "2",
    "0", "2", "5", " ", "2", "0", "2", "5", "-", "0", "1", "-", "1", "6", " ", "t", "o",
    "d", "a", "y">>

SlashExample ==
    <<"1", "/", "5", "/", "2", "0", "2", "5", " ", "0", "1", "/", "1", "5", "/", "2", "0",
    "2", "5">>

DashExample ==
    <<"0", "1", "-", "1", "5", "-", "2", "0", "2", "5", " ", "1", "/", "5", "/", "2", "0",
    "2", "5", " ", "y", "e", "s", "t", "e", "r", "d", "a", "y">>

DashOnlyExample ==
    <<"W", "M", "0", "0", "1", " ", "1", "5", "0", " ", "0", "1", "-", "1", "5", "-", "2",
    "0", "2", "5">>

BothWordsExample ==
    <<"y", "e", "s", "t", "e", "r", "d", "a", "y", " ", "t", "o", "d", "a", "y">>

Examples ==
    {KitchenExample, NoiseExample, TodayExample, DuplicateExample, GardenExample,
     MainExample, RoomExample, NumbersExample, IsoFirstExample, SlashExample,
     DashExample, DashOnlyExample, BothWordsExample}

\* texts near a tag or an alias: one tag nearest, all tags equally near, an
\* alias in the text beside a near tag, two aliases equally near, and a later
\* alias nearer than an earlier one
Wm03Input == <<"w", "m", "0", "3">>
Wm006Input == <<"w", "m", "0", "0", "6">>
HotWm01Input == <<"h", "o", "t", " ", "w", "m", "0", "1">>
YarinInput == <<"y", "a", "r", "i", "n">>
ArdInput == <<"a", "r", "d">>

SimilarityInputs == {Wm03Input, Wm006Input, HotWm01Input, YarinInput, ArdInput}

\* a date written right after the point of a number
DecimalYearInput ==
    <<"k", "i", "t", "c", "h", "e", "n", " ", "5", ".", "2", "0", "2", "5", "-",
     "0", "1", "-", "1", "5">>

\* an alias that holds the letter of the liters variant 'L'
SupplyInput == <<"s", "u", "p", "p", "l", "y", " ", "1", "5", "0">>

Inputs ==
    Examples \cup SimilarityInputs \cup {DecimalYearInput, SupplyInput} \cup
    {JoinFrags(S) : S \in {X \in SUBSET (1..Len(Fragments)) : Cardinality(X) <= MaxFrags}}

Dates ==
    << [y |-> 2025, m |-> 1, d |-> 1],
       [y |-> 2025, m |-> 1, d |-> 15],
       [y |-> 2025, m |-> 3, d |-> 1] >>

DateLE(x, y) == x.y * 10000 + x.m * 100 + x.d <= y.y * 10000 + y.m * 100 + y.d

(***************************************************************************)
(* The tools tabulated over the inputs of the model (TLC evaluates each     *)
(* table once; @@ makes it an explicit function).                           *)
(***************************************************************************)
CleanedInputs == {clean_text_tool(r) : r \in Inputs}

CleanTable == [r \in Inputs |-> clean_text_tool(r)] @@ <<>>
TagTable == [t \in CleanedInputs |-> fuzzy_match_tool(t, meter_tags)] @@ <<>>
NameTable == [t \in CleanedInputs |-> fuzzy_match_tool(t, name_to_tag)] @@ <<>>
MeterTable == [t \in CleanedInputs |-> MeterIdentificationTool_run(t)] @@ <<>>
NumbersTable == [t \in CleanedInputs |-> extract_numbers_tool(t)] @@ <<>>
UnitTable == [t \in CleanedInputs |-> standardize_unit_tool(t)] @@ <<>>
DateTable == [t \in CleanedInputs, d \in Range(Dates) |-> parse_date_tool(t, d)] @@ <<>>

(***************************************************************************)
(* _think                                                                   *)
(***************************************************************************)
\* the decisions both agents share: everything before VALIDATE, "" past them
\* a variant that asks for the reading before it asks for the meter
ThinkStages_reading_first(s) ==
    IF IsNone(s.cleaned_text) THEN "CLEAN_TEXT"
    ELSE IF IsNone(s.reading_value) THEN "EXTRACT_READING"
    ELSE IF IsNone(s.meter_tag)
         THEN IF Strip(Val(s.cleaned_text)) = <<>> THEN "FAIL" ELSE "IDENTIFY_METER"
    ELSE IF IsNone(s.unit) THEN "IDENTIFY_UNIT"
    ELSE IF IsNone(s.date) THEN "PARSE_DATE"
    ELSE ""

ThinkStages(s) ==
    IF IsNone(s.cleaned_text) THEN "CLEAN_TEXT"
    ELSE IF IsNone(s.meter_tag)
         THEN IF Strip(Val(s.cleaned_text)) = <<>> THEN "FAIL" ELSE "IDENTIFY_METER"
    ELSE IF IsNone(s.reading_value) THEN "EXTRACT_READING"
    ELSE IF IsNone(s.unit) THEN "IDENTIFY_UNIT"
    ELSE IF IsNone(s.date) THEN "PARSE_DATE"
    ELSE ""

WMA_think(s) == IF ThinkStages(s) # "" THEN ThinkStages(s) ELSE "VALIDATE"

LLA_think(s) ==
    IF ThinkStages(s) # "" THEN ThinkStages(s)
    ELSE IF ~(\E i \in 1..Len(s.tool_calls) : s.tool_calls[i] = "validate_range")
         THEN "VALIDATE"
    ELSE "COMPLETE"

Think(a, s) == IF a = WMA THEN WMA_think(s) ELSE LLA_think(s)

(***************************************************************************)
(* _act, one operator per branch.  A branch ends with the outcome           *)
(* [state, hist, raised, error]: the state dictionary and the history after *)
(* the branch, or the exception it raised.                                  *)
(***************************************************************************)
\* confidence is kept in units of 0.0001
Conf(tenths) == tenths * 1000

Done(s, h) == [state |-> s, hist |-> h, raised |-> FALSE, error |-> ""]
Threw(s, h, e) == [state |-> s, hist |-> h, raised |-> TRUE, error |-> e]

Called(s, tool) == [s EXCEPT !.tool_calls = Append(@, tool)]

\* f"{meter_tag}_{reading_value}_{date}": tag and date contain no underscore
\* and no float prints one, so the three parts determine the string
Signature(tag, value, date) == <<<<tag>>, FormatFloat(value), date>>

\* a variant that already cuts a history of HistoryCap signatures
Truncated_at_cap(h) ==
    IF Len(h) >= HistoryCap THEN SubSeq(h, Len(h) - HistoryKeep + 1, Len(h)) ELSE h

\* self.parsing_history after a new signature was appended
Truncated(h) ==
    IF Len(h) > HistoryCap THEN SubSeq(h, Len(h) - HistoryKeep + 1, Len(h)) ELSE h

InHistory(sig, h) == \E i \in 1..Len(h) : h[i] = sig

DuplicateWarning == Warn("Potential duplicate reading")

\* the local agent also records the tool it ran
Traced(a, t, tool) == IF a = WMA THEN t ELSE Called(t, tool)

OrElse(x, y) == IF ~IsNone(x) THEN x ELSE y

act_clean_text(a, s) ==
    Traced(a, [s EXCEPT !.cleaned_text = Some(CleanTable[s.raw_input])], "clean_text")

\* a variant that adds the 0.3 whether or not a meter was found
WMA_store_meter_always_confident(s, tag) ==
    IF ~IsNone(tag)
    THEN [s EXCEPT !.meter_tag = tag, !.confidence = @ + Conf(3)]
    ELSE [s EXCEPT !.meter_tag = Some("UNKNOWN"), !.confidence = @ + Conf(3),
                   !.warnings = Append(@, Warn("Could not identify meter tag"))]

WMA_store_meter(s, tag) ==
    IF ~IsNone(tag)
    THEN [s EXCEPT !.meter_tag = tag, !.confidence = @ + Conf(3)]
    ELSE [s EXCEPT !.meter_tag = Some("UNKNOWN"),
                   !.warnings = Append(@, Warn("Could not identify meter tag"))]

\* a variant that looks for an alias before it looks for a tag
WMA_identify_meter_alias_first(s) ==
    WMA_store_meter(s, OrElse(NameTable[Val(s.cleaned_text)], TagTable[Val(s.cleaned_text)]))

WMA_identify_meter(s) ==
    WMA_store_meter(s, OrElse(TagTable[Val(s.cleaned_text)], NameTable[Val(s.cleaned_text)]))

LLA_store_meter(s, res) ==
    IF res # "UNKNOWN"
    THEN [s EXCEPT !.meter_tag = Some(res), !.confidence = @ + Conf(3)]
    ELSE [s EXCEPT !.meter_tag = Some(res),
                   !.warnings = Append(@, Warn("Could not identify meter tag"))]

LLA_identify_meter(s) ==
    Called(LLA_store_meter(s, MeterTable[Val(s.cleaned_text)]), "identify_meter")

\* a variant that keeps the last number found instead of the largest
store_reading_last(s, numbers) ==
    IF numbers # <<>>
    THEN [s EXCEPT !.reading_value = Some(numbers[Len(numbers)]), !.confidence = @ + Conf(4)]
    ELSE [s EXCEPT !.reading_value = Some(0),
                   !.warnings = Append(@, Warn("No numeric reading detected"))]

\* a variant that keeps the first number found instead of the largest
store_reading_first(s, numbers) ==
    IF numbers # <<>>
    THEN [s EXCEPT !.reading_value = Some(numbers[1]), !.confidence = @ + Conf(4)]
    ELSE [s EXCEPT !.reading_value = Some(0),
                   !.warnings = Append(@, Warn("No numeric reading detected"))]

store_reading(s, numbers) ==
    IF numbers # <<>>
    THEN [s EXCEPT !.reading_value =
                       Some(IF Len(numbers) > 1 THEN MaxOf(numbers) ELSE numbers[1]),
                   !.confidence = @ + Conf(4)]
    ELSE [s EXCEPT !.reading_value = Some(0),
                   !.warnings = Append(@, Warn("No numeric reading detected"))]

act_extract_reading(a, s) ==
    Traced(a, store_reading(s, NumbersTable[Val(s.cleaned_text)]), "extract_numbers")

\* a variant that adds 0.3 for the unit
act_identify_unit_generous(a, s) ==
    Traced(a, [s EXCEPT !.unit = Some(UnitTable[Val(s.cleaned_text)]),
                        !.confidence = @ + Conf(3)],
           "standardize_unit")

act_identify_unit(a, s) ==
    Traced(a, [s EXCEPT !.unit = Some(UnitTable[Val(s.cleaned_text)]),
                        !.confidence = @ + Conf(2)],
           "standardize_unit")

\* a variant that adds nothing to confidence for the date
store_date_unscored(a, s, h, res) ==
    IF res.raised THEN Threw(s, h, res.value)
    ELSE Done(Traced(a, [s EXCEPT !.date = Some(res.value)], "parse_date"), h)

\* the assignment to state['date'] is not reached when the tool raises
store_date(a, s, h, res) ==
    IF res.raised THEN Threw(s, h, res.value)
    ELSE Done(Traced(a, [s EXCEPT !.date = Some(res.value), !.confidence = @ + Conf(1)],
                     "parse_date"), h)

act_parse_date(a, s, today, h) == store_date(a, s, h, DateTable[Val(s.cleaned_text), today])

\* the warnings after the range check whose verdict is v
WMA_range_warnings(s, v) == IF ~v.is_valid THEN Append(s.warnings, v.message) ELSE s.warnings

\* a variant that inserts the signature whether or not it is there
WMA_check_duplicate_insert_first(s, h, w1, sig) ==
    IF InHistory(sig, h)
    THEN Done([s EXCEPT !.warnings = Append(w1, DuplicateWarning)], Truncated(Append(h, sig)))
    ELSE Done([s EXCEPT !.warnings = w1], Truncated(Append(h, sig)))

\* the duplicate check of the reading with signature sig, warnings w1 so far
WMA_check_duplicate(s, h, w1, sig) ==
    IF InHistory(sig, h)
    THEN Done([s EXCEPT !.warnings = Append(w1, DuplicateWarning)], h)
    ELSE Done([s EXCEPT !.warnings = w1], Truncated(Append(h, sig)))

WMA_validate(s, h) ==
    WMA_check_duplicate(s, h,
        WMA_range_warnings(s, validate_range_tool(Val(s.reading_value), Val(s.unit))),
        Signature(Val(s.meter_tag), Val(s.reading_value), Val(s.date)))

LLA_range_warnings(s, res) ==
    IF res = "OUT_OF_RANGE"
    THEN [s EXCEPT !.warnings =
             Append(@, WarnRange("Reading {value} {unit} is outside expected range",
                                 Val(s.reading_value), Val(s.unit)))]
    ELSE IF res = "UNKNOWN_UNIT"
    THEN [s EXCEPT !.warnings =
             Append(@, [msg |-> "Unknown unit {unit} - cannot validate range",
                        args |-> <<<<Val(s.unit)>>>>])]
    ELSE s

LLA_validate(s) ==
    Called(LLA_range_warnings(s, ValidateRangeTool_run(FormatFloat(Val(s.reading_value)),
                                                       Val(s.unit))),
           "validate_range")

(***************************************************************************)
(* _generate_result and _check_duplicates                                   *)
(***************************************************************************)
\* the value of Python's `tag and tag != 'UNKNOWN' and value is not None and value > 0`
SuccessOf(s) ==
    IF IsNone(s.meter_tag) THEN "None"
    ELSE IF Val(s.meter_tag) = "UNKNOWN" THEN "False"
    ELSE IF IsNone(s.reading_value) THEN "False"
    ELSE IF Val(s.reading_value) > 0 THEN "True" ELSE "False"

\* round(x, 2), x in units of 0.0001
Round2(x) == ((x + 50) \div 100) * 100

DescriptionOf(tag) ==
    IF IsNone(tag) THEN "Unknown Meter" ELSE DictGet(meter_tags, Val(tag), "Unknown Meter")

WMA_generate_result(s) ==
    [kind |-> "result",
     success |-> SuccessOf(s),
     confidence |-> Round2(s.confidence),
     meter |-> [tag |-> s.meter_tag, description |-> DescriptionOf(s.meter_tag)],
     reading |-> [value |-> s.reading_value, unit |-> s.unit, date |-> s.date],
     warnings |-> s.warnings,
     raw_input |-> s.raw_input]

LLA_generate_result(s) ==
    [kind |-> "result",
     success |-> SuccessOf(s),
     confidence |-> Round2(s.confidence),
     meter |-> [tag |-> s.meter_tag, description |-> DescriptionOf(s.meter_tag)],
     reading |-> [value |-> s.reading_value, unit |-> s.unit, date |-> s.date],
     warnings |-> s.warnings,
     raw_input |-> s.raw_input,
     processing_method |-> "local_langchain_style",
     tool_calls |-> Len(s.tool_calls),
     execution_trace |-> s.tool_calls]

\* [result, hist] after _check_duplicates(result)
LLA_check_duplicates(res, h) ==
    IF res.success = "True"
    THEN LET sig == Signature(Val(res.meter.tag), Val(res.reading.value), Val(res.reading.date))
         IN  IF InHistory(sig, h)
             THEN [result |-> [res EXCEPT !.warnings = Append(@, DuplicateWarning)], hist |-> h]
             ELSE [result |-> res, hist |-> Truncated(Append(h, sig))]
    ELSE [result |-> res, hist |-> h]

\* what parse_reading does once the loop is left: [result, hist]
Finish(a, s, h) ==
    IF a = WMA THEN [result |-> WMA_generate_result(s), hist |-> h]
    ELSE LLA_check_duplicates(LLA_generate_result(s), h)

\* the except branch of LocalLangChainStyleAgent.parse_reading
LLA_error_result(raw_input, e) ==
    [kind |-> "error", success |-> "False", error |-> e, raw_input |-> raw_input,
     processing_method |-> "local_langchain_style"]

(***************************************************************************)
(* LangChainWaterMeterAgent: the result comes from the language model, so   *)
(* parse_reading is given it as an answer, or the executor raises.  lc      *)
(* holds the number of calls, parsing_history and the last result.          *)
(***************************************************************************)
FreshLC == [calls |-> 0, hist |-> <<>>, result |-> NoResult]

LLMAnswer(success, tag, value, date) ==
    [kind |-> "result", success |-> success,
     meter |-> [tag |-> Some(tag)],
     reading |-> [value |-> Some(value), date |-> Some(date)],
     warnings |-> <<>>]

LLMAnswers ==
    {LLMAnswer("True", "WM001", 15050, FormatDate(Dates[2])),
     LLMAnswer("True", "WM002", 8930, FormatDate(Dates[2])),
     LLMAnswer("False", "UNKNOWN", 0, FormatDate(Dates[2])),
     [kind |-> "raised"]}

\* [result, hist] after _check_duplicates(result)
LCA_check_duplicates(res, h) ==
    IF res.success = "True"
    THEN LET sig == Signature(Val(res.meter.tag), Val(res.reading.value), Val(res.reading.date))
         IN  IF InHistory(sig, h)
             THEN [result |-> [res EXCEPT !.warnings = Append(@, DuplicateWarning)], hist |-> h]
             ELSE [result |-> res, hist |-> Truncated(Append(h, sig))]
    ELSE [result |-> res, hist |-> h]

\* the except branch of LangChainWaterMeterAgent.parse_reading
LCA_error_result == [kind |-> "error", success |-> "False"]

LCA_parse_reading(answer, h) ==
    IF answer.kind = "raised" THEN [result |-> LCA_error_result, hist |-> h]
    ELSE LCA_check_duplicates(answer, h)

(***************************************************************************)
(* The state machine.  pc[a] is "idle" before the first call, "loop" while  *)
(* parse_reading runs its loop, "returned" once it returned result[a] and   *)
(* "raised" when an exception left it.  decisions[a] lists the decisions of *)
(* _think in the current call, hist0 is the history when the call began and *)
(* prev[a] remembers, when the call repeats the previous input on the same  *)
(* date, how the previous call ended.                                       *)
(***************************************************************************)
CountOf(w, seq) == Cardinality({i \in 1..Len(seq) : seq[i] = w})

NoPrev == [same |-> FALSE, success |-> "None", dups |-> 0]

PrevOf(res) ==
    IF res.kind = "result"
    THEN [same |-> TRUE, success |-> res.success, dups |-> CountOf(DuplicateWarning, res.warnings)]
    ELSE [same |-> TRUE, success |-> "None", dups |-> 0]

(***************************************************************************)
(* Callers inside parse_reading of one instance at the same time.  Each    *)
(* has its own state dictionary, a local of parse_reading; the instance    *)
(* holds parsing_history.  conc is [agent, parsing_history, caller], with   *)
(* for each caller its position, step, state, result, and the locals of    *)
(* the duplicate check: the signature and the slice read before the store. *)
(***************************************************************************)
Callers == 1..2

IdleCaller ==
    [pc |-> "idle", step |-> 1, s |-> FreshState(<<>>), result |-> NoResult,
     sig |-> <<>>, cut |-> <<>>]

CallersOn(a, h) ==
    [agent |-> a, parsing_history |-> h, caller |-> [t \in Callers |-> IdleCaller]]

NoCallers == CallersOn(WMA, <<>>)

(***************************************************************************)
(* VoiceInputHandler: voice is [available, microphone] as left by           *)
(* construction, the arguments and position of get_voice_input, the calls   *)
(* made to the recognizer and to time.sleep in order (log), the value       *)
(* returned by the handler and the string returned by the module-level      *)
(* get_voice_input.                                                         *)
(***************************************************************************)
VoiceHandler(available, microphone) ==
    [available |-> available, microphone |-> microphone, pc |-> "idle", wrapped |-> FALSE,
     retries |-> 0, attempt |-> 0, log |-> <<>>, result |-> None, text |-> None]

NoVoice == VoiceHandler(FALSE, FALSE)


Init ==
    /\ now = Dates[1]
    /\ raw = <<>>
    /\ calls = 0
    /\ pc = [a \in Agents |-> "idle"]
    /\ step = [a \in Agents |-> 1]
    /\ st = [a \in Agents |-> FreshState(<<>>)]
    /\ decisions = [a \in Agents |-> <<>>]
    /\ hist = [a \in Agents |-> <<>>]
    /\ hist0 = [a \in Agents |-> <<>>]
    /\ result = [a \in Agents |-> NoResult]
    /\ prev = [a \in Agents |-> NoPrev]
    /\ lc = FreshLC
    /\ conc = NoCallers
    /\ voice = NoVoice

\* parse_reading(r) is called on both agents, on a day d
CanBegin == calls < MaxCalls /\ lc.calls = 0 /\ \A a \in Agents : pc[a] # "loop"

\* a variant in which the warnings of the previous call stay in the state
Begin_keeps_warnings(r, d) ==
    /\ DateLE(now, d)
    /\ now' = d
    /\ raw' = r
    /\ calls' = calls + 1
    /\ pc' = [a \in Agents |-> "loop"]
    /\ step' = [a \in Agents |-> 1]
    /\ st' = [a \in Agents |-> [FreshState(r) EXCEPT !.warnings = st[a].warnings]]
    /\ decisions' = [a \in Agents |-> <<>>]
    /\ hist0' = hist
    /\ result' = [a \in Agents |-> NoResult]
    /\ prev' = [a \in Agents |->
                  IF calls >= 1 /\ r = raw /\ d = now THEN PrevOf(result[a]) ELSE NoPrev]
    /\ UNCHANGED <<hist, lc, conc, voice>>

Begin(r, d) ==
    /\ DateLE(now, d)
    /\ now' = d
    /\ raw' = r
    /\ calls' = calls + 1
    /\ pc' = [a \in Agents |-> "loop"]
    /\ step' = [a \in Agents |-> 1]
    /\ st' = [a \in Agents |-> FreshState(r)]
    /\ decisions' = [a \in Agents |-> <<>>]
    /\ hist0' = hist
    /\ result' = [a \in Agents |-> NoResult]
    /\ prev' = [a \in Agents |->
                  IF calls >= 1 /\ r = raw /\ d = now THEN PrevOf(result[a]) ELSE NoPrev]
    /\ UNCHANGED <<hist, lc, conc, voice>>

\* the original agent runs first, as in comparison_demo.test_all_agents
Turn(a) == a = WMA \/ pc[WMA] # "loop"

InLoop(a) == pc[a] = "loop" /\ Turn(a) /\ step[a] <= max_steps

\* one iteration of the loop that decides on `action` and executes it, with
\* outcome r: an exception leaves WaterMeterAgent.parse_reading and is caught
\* in LocalLangChainStyleAgent.parse_reading
Step(a, action, r) ==
    /\ InLoop(a)
    /\ Think(a, st[a]) = action
    /\ decisions' = [decisions EXCEPT ![a] = Append(@, action)]
    /\ IF r.raised
       THEN /\ pc' = [pc EXCEPT ![a] = IF a = WMA THEN "raised" ELSE "returned"]
            /\ result' = [result EXCEPT ![a] =
                             IF a = WMA THEN NoResult ELSE LLA_error_result(raw, r.error)]
            /\ UNCHANGED <<st, hist, step>>
       ELSE /\ st' = [st EXCEPT ![a] = r.state]
            /\ hist' = [hist EXCEPT ![a] = r.hist]
            /\ step' = [step EXCEPT ![a] = @ + 1]
            /\ UNCHANGED <<pc, result>>
    /\ UNCHANGED <<now, raw, calls, hist0, prev, lc, conc, voice>>

CleanText(a) == Step(a, "CLEAN_TEXT", Done(act_clean_text(a, st[a]), hist[a]))

IdentifyMeter(a) ==
    Step(a, "IDENTIFY_METER",
         Done(IF a = WMA THEN WMA_identify_meter(st[a]) ELSE LLA_identify_meter(st[a]), hist[a]))

ExtractReading(a) == Step(a, "EXTRACT_READING", Done(act_extract_reading(a, st[a]), hist[a]))

IdentifyUnit(a) == Step(a, "IDENTIFY_UNIT", Done(act_identify_unit(a, st[a]), hist[a]))

ParseDate(a) == Step(a, "PARSE_DATE", act_parse_date(a, st[a], now, hist[a]))

Validate(a) ==
    Step(a, "VALIDATE",
         IF a = WMA THEN WMA_validate(st[a], hist[a]) ELSE Done(LLA_validate(st[a]), hist[a]))

\* the loop is left and the result is returned
Return(a, s) ==
    LET f == Finish(a, s, hist[a])
    IN  /\ st' = [st EXCEPT ![a] = s]
        /\ result' = [result EXCEPT ![a] = f.result]
        /\ hist' = [hist EXCEPT ![a] = f.hist]
        /\ pc' = [pc EXCEPT ![a] = "returned"]
        /\ UNCHANGED <<now, raw, calls, step, hist0, prev, lc, conc, voice>>

Fail(a) ==
    /\ InLoop(a)
    /\ Think(a, st[a]) = "FAIL"
    /\ decisions' = [decisions EXCEPT ![a] = Append(@, "FAIL")]
    /\ Return(a, [st[a] EXCEPT !.warnings = Append(@, Warn("Parsing failed - insufficient data"))])

Complete(a) ==
    /\ InLoop(a)
    /\ Think(a, st[a]) = "COMPLETE"
    /\ decisions' = [decisions EXCEPT ![a] = Append(@, "COMPLETE")]
    /\ Return(a, st[a])

\* range(1, max_steps + 1) is exhausted
Exhausted(a) ==
    /\ pc[a] = "loop"
    /\ Turn(a)
    /\ step[a] > max_steps
    /\ UNCHANGED decisions
    /\ Return(a, st[a])

Next ==
    \/ CanBegin /\ \E r \in Inputs, i \in 1..Len(Dates) : Begin(r, Dates[i])
    \/ \E a \in Agents : CleanText(a)
    \/ \E a \in Agents : IdentifyMeter(a)
    \/ \E a \in Agents : ExtractReading(a)
    \/ \E a \in Agents : IdentifyUnit(a)
    \/ \E a \in Agents : ParseDate(a)
    \/ \E a \in Agents : Validate(a)
    \/ \E a \in Agents : Fail(a)
    \/ \E a \in Agents : Complete(a)
    \/ \E a \in Agents : Exhausted(a)

Spec == Init /\ [][Next]_vars

(***************************************************************************)
(* parse_reading as a function: the outcome of _act for a decision, and     *)
(* the loop run to its end on state s with history h on day `today`, from   *)
(* step k on.                                                               *)
(***************************************************************************)
ActOutcome(a, action, s, today, h) ==
    IF action = "CLEAN_TEXT" THEN Done(act_clean_text(a, s), h)
    ELSE IF action = "IDENTIFY_METER"
    THEN Done(IF a = WMA THEN WMA_identify_meter(s) ELSE LLA_identify_meter(s), h)
    ELSE IF action = "EXTRACT_READING" THEN Done(act_extract_reading(a, s), h)
    ELSE IF action = "IDENTIFY_UNIT" THEN Done(act_identify_unit(a, s), h)
    ELSE IF action = "PARSE_DATE" THEN act_parse_date(a, s, today, h)
    ELSE IF a = WMA THEN WMA_validate(s, h) ELSE Done(LLA_validate(s), h)

LoopEnd(a, s, h) == Finish(a, s, h) @@ [raised |-> FALSE]

LoopFault(a, s, h, e) ==
    [result |-> IF a = WMA THEN NoResult ELSE LLA_error_result(s.raw_input, e),
     hist |-> h, raised |-> TRUE]

RECURSIVE RunLoop(_, _, _, _, _)
RunLoop(a, s, h, today, k) ==
    IF k > max_steps THEN LoopEnd(a, s, h)
    ELSE IF Think(a, s) = "COMPLETE" THEN LoopEnd(a, s, h)
    ELSE IF Think(a, s) = "FAIL"
    THEN LoopEnd(a, [s EXCEPT !.warnings = Append(@, Warn("Parsing failed - insufficient data"))], h)
    ELSE LET r == ActOutcome(a, Think(a, s), s, today, h)
         IN  IF r.raised THEN LoopFault(a, s, h, r.error)
             ELSE RunLoop(a, r.state, r.hist, today, k + 1)

\* parse_reading(raw_input) on an instance whose history is h
parse_reading(a, raw_input, today, h) == RunLoop(a, FreshState(raw_input), h, today, 1)

(***************************************************************************)
(* Long-lived instances: every history already holds HistoryCap - 1         *)
(* signatures of earlier successful readings, and the API agent, which      *)
(* shares nothing with the other two, is called in behaviours of its own.   *)
(***************************************************************************)
EarlierHistory ==
    [i \in 1..(HistoryCap - 1) |->
        Signature("WM005", i * 100, <<"2", "0", "2", "4", "-", "1", "2", "-", "3", "1">>)]

InitLongLived ==
    /\ now = Dates[1]
    /\ raw = <<>>
    /\ calls = 0
    /\ pc = [a \in Agents |-> "idle"]
    /\ step = [a \in Agents |-> 1]
    /\ st = [a \in Agents |-> FreshState(<<>>)]
    /\ decisions = [a \in Agents |-> <<>>]
    /\ hist = [a \in Agents |-> EarlierHistory]
    /\ hist0 = [a \in Agents |-> EarlierHistory]
    /\ result = [a \in Agents |-> NoResult]
    /\ prev = [a \in Agents |-> NoPrev]
    /\ lc = [FreshLC EXCEPT !.hist = EarlierHistory]
    /\ conc = NoCallers
    /\ voice = NoVoice

LangChainParse(answer) ==
    /\ calls = 0
    /\ lc.calls < MaxCalls
    /\ lc' = [calls |-> lc.calls + 1,
              hist |-> LCA_parse_reading(answer, lc.hist).hist,
              result |-> LCA_parse_reading(answer, lc.hist).result]
    /\ UNCHANGED <<now, raw, calls, pc, step, st, decisions, hist, hist0, result, prev, conc, voice>>

NextLongLived ==
    \/ Next
    \/ \E answer \in LLMAnswers : LangChainParse(answer)

SpecLongLived == InitLongLived /\ [][NextLongLived]_vars

(***************************************************************************)
(* _act called for VALIDATE on any state dictionary that has its five       *)
(* fields set: the unit need not be one standardize_unit_tool returns.      *)
(***************************************************************************)
ValidateUnits == {"cubic_meters", "gallons", "liters", "barrels"}
ValidateValues == {0, 15050, 100000, 100001, 26400000, 26400001, 100000000, 100000001}
ValidateTags == {"WM001", "UNKNOWN"}

ReadyState(a, tag, value, unit) ==
    [raw_input |-> KitchenExample,
     cleaned_text |-> Some(clean_text_tool(KitchenExample)),
     meter_tag |-> Some(tag),
     reading_value |-> Some(value),
     unit |-> Some(unit),
     date |-> Some(FormatDate(Dates[1])),
     warnings |-> <<>>,
     confidence |-> IF tag = "UNKNOWN" THEN Conf(7) ELSE Conf(10),
     tool_calls |-> IF a = WMA THEN <<>>
                    ELSE <<"clean_text", "identify_meter", "extract_numbers",
                           "standardize_unit", "parse_date">>]

InitValidate ==
    /\ now = Dates[1]
    /\ raw = KitchenExample
    /\ calls = MaxCalls
    /\ pc = [a \in Agents |-> "loop"]
    /\ step = [a \in Agents |-> 6]
    /\ \E tag \in ValidateTags, value \in ValidateValues, unit \in ValidateUnits :
           st = [a \in Agents |-> ReadyState(a, tag, value, unit)]
    /\ decisions = [a \in Agents |->
                       <<"CLEAN_TEXT", "IDENTIFY_METER", "EXTRACT_READING", "IDENTIFY_UNIT",
                         "PARSE_DATE">>]
    /\ hist = [a \in Agents |-> <<>>]
    /\ hist0 = [a \in Agents |-> <<>>]
    /\ result = [a \in Agents |-> NoResult]
    /\ prev = [a \in Agents |-> NoPrev]
    /\ lc = FreshLC
    /\ conc = NoCallers
    /\ voice = NoVoice

NextValidate ==
    \/ \E a \in Agents : Validate(a)
    \/ \E a \in Agents : Complete(a)
    \/ \E a \in Agents : Exhausted(a)

SpecValidate == InitValidate /\ [][NextValidate]_vars

(***************************************************************************)
(* Two callers in parse_reading of the same instance.  A step of the loop   *)
(* works on the caller's own dictionary; the duplicate check reads and      *)
(* writes self.parsing_history in separate steps: the membership test, the  *)
(* append, the length test, the slice and the store of the slice.           *)
(***************************************************************************)
ConcInputs ==
    {KitchenExample, TodayExample, DuplicateExample, NoiseExample, GardenExample, Fragments[9]}

\* the days on which the two calls are made
ConcDates == {Dates[1], Dates[2]}

\* a history one signature short of being cut
FullHistory == Append(EarlierHistory, Signature("WM005", 0, FormatDate(Dates[1])))

ConcHistories == {<<>>, FullHistory}

mainvars == <<now, raw, calls, pc, step, st, decisions, hist, hist0, result, prev, lc, voice>>

Caller(t) == conc.caller[t]

ConcInLoop(t) == Caller(t).pc = "loop" /\ Caller(t).step <= max_steps

ConcDecision(t) == Think(conc.agent, Caller(t).s)

\* the caller's record after _act, whose outcome is r
AfterAct(a, c, r) ==
    IF r.raised
    THEN [c EXCEPT !.pc = IF a = WMA THEN "raised" ELSE "returned",
                   !.result = IF a = WMA THEN NoResult
                              ELSE LLA_error_result(c.s.raw_input, r.error)]
    ELSE [c EXCEPT !.s = r.state, !.step = @ + 1]

\* the caller's record once the duplicate check is over
AfterCheck(a, c) ==
    IF a = WMA THEN [c EXCEPT !.pc = "loop", !.step = @ + 1] ELSE [c EXCEPT !.pc = "returned"]

\* the caller's record when the loop is left with state s
AfterLoop(a, c, s) ==
    IF a = WMA
    THEN [c EXCEPT !.s = s, !.result = WMA_generate_result(s), !.pc = "returned"]
    ELSE IF SuccessOf(s) = "True"
    THEN [c EXCEPT !.s = s, !.result = LLA_generate_result(s), !.pc = "check",
                   !.sig = Signature(Val(s.meter_tag), Val(s.reading_value), Val(s.date))]
    ELSE [c EXCEPT !.s = s, !.result = LLA_generate_result(s), !.pc = "returned"]

\* a variant in which the state dictionary is an attribute of the instance
ConcCall_shared_state(t, r) ==
    /\ Caller(t).pc = "idle"
    /\ conc' = [conc EXCEPT !.caller =
                   [u \in Callers |->
                       IF u = t THEN [IdleCaller EXCEPT !.pc = "loop", !.s = FreshState(r)]
                       ELSE IF conc.caller[u].pc = "loop"
                       THEN [conc.caller[u] EXCEPT !.s = FreshState(r)]
                       ELSE conc.caller[u]]]
    /\ UNCHANGED mainvars

ConcCall(t, r) ==
    /\ Caller(t).pc = "idle"
    /\ conc' = [conc EXCEPT !.caller[t] = [IdleCaller EXCEPT !.pc = "loop", !.s = FreshState(r)]]
    /\ UNCHANGED mainvars

\* an iteration of the loop that does not touch parsing_history
ConcAct(t) ==
    /\ ConcInLoop(t)
    /\ ConcDecision(t) \notin {"COMPLETE", "FAIL"}
    /\ ~(conc.agent = WMA /\ ConcDecision(t) = "VALIDATE")
    /\ conc' = [conc EXCEPT !.caller[t] =
                   AfterAct(conc.agent, @,
                            ActOutcome(conc.agent, ConcDecision(t), Caller(t).s, now,
                                       conc.parsing_history))]
    /\ UNCHANGED mainvars

\* VALIDATE of WaterMeterAgent up to reading_signature
ConcValidate(t) ==
    /\ ConcInLoop(t)
    /\ conc.agent = WMA
    /\ ConcDecision(t) = "VALIDATE"
    /\ conc' = [conc EXCEPT !.caller[t] =
                   [@ EXCEPT !.pc = "check",
                             !.s.warnings =
                                 WMA_range_warnings(Caller(t).s,
                                     validate_range_tool(Val(Caller(t).s.reading_value),
                                                         Val(Caller(t).s.unit))),
                             !.sig = Signature(Val(Caller(t).s.meter_tag),
                                               Val(Caller(t).s.reading_value),
                                               Val(Caller(t).s.date))]]
    /\ UNCHANGED mainvars

\* the loop is left: by COMPLETE, by FAIL or by exhausting range
ConcLeave(t) ==
    /\ Caller(t).pc = "loop"
    /\ Caller(t).step > max_steps \/ ConcDecision(t) \in {"COMPLETE", "FAIL"}
    /\ conc' = [conc EXCEPT !.caller[t] =
                   AfterLoop(conc.agent, @,
                       IF Caller(t).step <= max_steps /\ ConcDecision(t) = "FAIL"
                       THEN [Caller(t).s EXCEPT !.warnings =
                                Append(@, Warn("Parsing failed - insufficient data"))]
                       ELSE Caller(t).s)]
    /\ UNCHANGED mainvars

\* if reading_signature in self.parsing_history: ... append the warning
ConcCheck(t) ==
    /\ Caller(t).pc = "check"
    /\ conc' = [conc EXCEPT !.caller[t] =
                   IF ~InHistory(Caller(t).sig, conc.parsing_history)
                   THEN [@ EXCEPT !.pc = "append"]
                   ELSE IF conc.agent = WMA
                   THEN AfterCheck(WMA, [@ EXCEPT !.s.warnings = Append(@, DuplicateWarning)])
                   ELSE AfterCheck(LLA, [@ EXCEPT !.result.warnings = Append(@, DuplicateWarning)])]
    /\ UNCHANGED mainvars

\* self.parsing_history.append(reading_signature)
ConcAppend(t) ==
    /\ Caller(t).pc = "append"
    /\ conc' = [conc EXCEPT !.parsing_history = Append(@, Caller(t).sig),
                            !.caller[t].pc = "len"]
    /\ UNCHANGED mainvars

\* if len(self.parsing_history) > 100
ConcLen(t) ==
    /\ Caller(t).pc = "len"
    /\ conc' = [conc EXCEPT !.caller[t] =
                   IF Len(conc.parsing_history) > HistoryCap
                   THEN [@ EXCEPT !.pc = "slice"]
                   ELSE AfterCheck(conc.agent, @)]
    /\ UNCHANGED mainvars

\* self.parsing_history[-50:]
ConcSlice(t) ==
    /\ Caller(t).pc = "slice"
    /\ conc' = [conc EXCEPT !.caller[t].pc = "store",
                            !.caller[t].cut =
                                IF Len(conc.parsing_history) > HistoryKeep
                                THEN SubSeq(conc.parsing_history,
                                            Len(conc.parsing_history) - HistoryKeep + 1,
                                            Len(conc.parsing_history))
                                ELSE conc.parsing_history]
    /\ UNCHANGED mainvars

\* self.parsing_history = <the slice>
ConcStore(t) ==
    /\ Caller(t).pc = "store"
    /\ conc' = [conc EXCEPT !.parsing_history = Caller(t).cut,
                            !.caller[t] = AfterCheck(conc.agent, [@ EXCEPT !.cut = <<>>])]
    /\ UNCHANGED mainvars

InitConcurrent ==
    /\ now \in ConcDates
    /\ raw = <<>>
    /\ calls = MaxCalls
    /\ pc = [a \in Agents |-> "idle"]
    /\ step = [a \in Agents |-> 1]
    /\ st = [a \in Agents |-> FreshState(<<>>)]
    /\ decisions = [a \in Agents |-> <<>>]
    /\ hist = [a \in Agents |-> <<>>]
    /\ hist0 = [a \in Agents |-> <<>>]
    /\ result = [a \in Agents |-> NoResult]
    /\ prev = [a \in Agents |-> NoPrev]
    /\ lc = FreshLC
    /\ voice = NoVoice
    /\ \E a \in Agents, h \in ConcHistories : conc = CallersOn(a, h)

NextConcurrent ==
    \/ \E t \in Callers, r \in ConcInputs : ConcCall(t, r)
    \/ \E t \in Callers : ConcAct(t)
    \/ \E t \in Callers : ConcValidate(t)
    \/ \E t \in Callers : ConcLeave(t)
    \/ \E t \in Callers : ConcCheck(t)
    \/ \E t \in Callers : ConcAppend(t)
    \/ \E t \in Callers : ConcLen(t)
    \/ \E t \in Callers : ConcSlice(t)
    \/ \E t \in Callers : ConcStore(t)

SpecConcurrent == InitConcurrent /\ [][NextConcurrent]_vars

(***************************************************************************)
(* _post_process_speech                                                     *)
(***************************************************************************)
StartsWith(s, p) == Len(p) <= Len(s) /\ SubSeq(s, 1, Len(p)) = p

Drop(s, n) == SubSeq(s, n + 1, Len(s))

\* str.replace(old, new), old not empty
RECURSIVE Replace(_, _, _)
Replace(s, old, new) ==
    IF s = <<>> THEN <<>>
    ELSE IF StartsWith(s, old) THEN new \o Replace(Drop(s, Len(old)), old, new)
    ELSE <<Head(s)>> \o Replace(Tail(s), old, new)

corrections ==
    << [wrong |-> <<"Z", "E", "R", "O">>,
        correct |-> <<"0">>],
       [wrong |-> <<"O", "N", "E">>,
        correct |-> <<"1">>],
       [wrong |-> <<"T", "W", "O">>,
        correct |-> <<"2">>],
       [wrong |-> <<"T", "H", "R", "E", "E">>,
        correct |-> <<"3">>],
       [wrong |-> <<"F", "O", "U", "R">>,
        correct |-> <<"4">>],
       [wrong |-> <<"F", "I", "V", "E">>,
        correct |-> <<"5">>],
       [wrong |-> <<"S", "I", "X">>,
        correct |-> <<"6">>],
       [wrong |-> <<"S", "E", "V", "E", "N">>,
        correct |-> <<"7">>],
       [wrong |-> <<"E", "I", "G", "H", "T">>,
        correct |-> <<"8">>],
       [wrong |-> <<"N", "I", "N", "E">>,
        correct |-> <<"9">>],
       [wrong |-> <<"T", "E", "N">>,
        correct |-> <<"1", "0">>],
       [wrong |-> <<"M", "E", "T", "E", "R", "S">>,
        correct |-> <<"C", "U", "B", "I", "C", " ", "M", "E", "T", "E", "R", "S">>],
       [wrong |-> <<"M", "E", "T", "E", "R">>,
        correct |-> <<"C", "U", "B", "I", "C", " ", "M", "E", "T", "E", "R", "S">>],
       [wrong |-> <<"G", "A", "L", "L", "O", "N">>,
        correct |-> <<"G", "A", "L", "L", "O", "N", "S">>],
       [wrong |-> <<"L", "I", "T", "E", "R">>,
        correct |-> <<"L", "I", "T", "E", "R", "S">>],
       [wrong |-> <<"L", "I", "T", "R", "E">>,
        correct |-> <<"L", "I", "T", "E", "R", "S">>],
       [wrong |-> <<"L", "I", "T", "R", "E", "S">>,
        correct |-> <<"L", "I", "T", "E", "R", "S">>],
       [wrong |-> <<"W", "A", "T", "E", "R", " ", "T", "H", "I", "N", "G">>,
        correct |-> <<"W", "A", "T", "E", "R", " ", "M", "E", "T", "E", "R">>],
       [wrong |-> <<"R", "E", "A", "D", "E", "R">>,
        correct |-> <<"M", "E", "T", "E", "R">>],
       [wrong |-> <<"R", "E", "A", "D", "I", "N", "G">>,
        correct |-> <<"M", "E", "T", "E", "R", " ", "R", "E", "A", "D", "I", "N", "G">>],
       [wrong |-> <<"D", "O", "U", "B", "L", "E", " ", "Y", "O", "U", " ", "M">>,
        correct |-> <<"W", "M">>],
       [wrong |-> <<"W", " ", "M">>,
        correct |-> <<"W", "M">>],
       [wrong |-> <<"D", "U", "B", "Y", "A", " ", "M">>,
        correct |-> <<"W", "M">>],
       [wrong |-> <<"K", "I", "T", "C", "H", "E", "N">>,
        correct |-> <<"K", "I", "T", "C", "H", "E", "N", " ", "M", "E", "T", "E", "R">>],
       [wrong |-> <<"B", "A", "T", "H", "R", "O", "O", "M">>,
        correct |-> <<"B", "A", "T", "H", "R", "O", "O", "M", " ", "M", "E", "T", "E", "R">>],
       [wrong |-> <<"G", "A", "R", "D", "E", "N">>,
        correct |-> <<"G", "A", "R", "D", "E", "N", " ", "M", "E", "T", "E", "R">>],
       [wrong |-> <<"M", "A", "I", "N">>,
        correct |-> <<"M", "A", "I", "N", " ", "M", "E", "T", "E", "R">>] >>

\* for wrong, correct in corrections.items(): processed = processed.replace(wrong, correct)
RECURSIVE ApplyCorrections(_, _)
ApplyCorrections(s, k) ==
    IF k > Len(corrections) THEN s
    ELSE ApplyCorrections(Replace(s, corrections[k].wrong, corrections[k].correct), k + 1)

\* the length of the run of digits, of whitespace, at the head of s
RECURSIVE DigitRun(_)
DigitRun(s) == IF s # <<>> /\ IsDigit(Head(s)) THEN 1 + DigitRun(Tail(s)) ELSE 0

SpaceRun(s) == Len(s) - Len(LStrip(s))

\* the length of a match of (\d+)\s+<word>\s+(\d+) at the head of s, 0 if none
SpokenPointAt(s, word) ==
    IF /\ DigitRun(s) > 0
       /\ SpaceRun(Drop(s, DigitRun(s))) > 0
       /\ StartsWith(LStrip(Drop(s, DigitRun(s))), word)
       /\ SpaceRun(Drop(LStrip(Drop(s, DigitRun(s))), Len(word))) > 0
       /\ DigitRun(LStrip(Drop(LStrip(Drop(s, DigitRun(s))), Len(word)))) > 0
    THEN Len(s) - Len(LStrip(Drop(LStrip(Drop(s, DigitRun(s))), Len(word))))
         + DigitRun(LStrip(Drop(LStrip(Drop(s, DigitRun(s))), Len(word))))
    ELSE 0

\* re.sub(r'(\d+)\s+<word>\s+(\d+)', r'\1.\2', s)
RECURSIVE SubPoint(_, _)
SubPoint(s, word) ==
    IF s = <<>> THEN <<>>
    ELSE IF SpokenPointAt(s, word) > 0
    THEN SubSeq(s, 1, DigitRun(s)) \o <<".">>
         \o SubSeq(s, SpokenPointAt(s, word)
                      - DigitRun(LStrip(Drop(LStrip(Drop(s, DigitRun(s))), Len(word)))) + 1,
                   SpokenPointAt(s, word))
         \o SubPoint(Drop(s, SpokenPointAt(s, word)), word)
    ELSE <<Head(s)>> \o SubPoint(Tail(s), word)

\* the length of a match of (\d+)\s+(\d+) at the head of s, 0 if none
SpacedDigitsAt(s) ==
    IF /\ DigitRun(s) > 0
       /\ SpaceRun(Drop(s, DigitRun(s))) > 0
       /\ DigitRun(LStrip(Drop(s, DigitRun(s)))) > 0
    THEN Len(s) - Len(LStrip(Drop(s, DigitRun(s)))) + DigitRun(LStrip(Drop(s, DigitRun(s))))
    ELSE 0

\* re.sub(r'(\d+)\s+(\d+)', r'\1\2', s)
RECURSIVE JoinDigits(_)
JoinDigits(s) ==
    IF s = <<>> THEN <<>>
    ELSE IF SpacedDigitsAt(s) > 0
    THEN SubSeq(s, 1, DigitRun(s))
         \o SubSeq(s, SpacedDigitsAt(s) - DigitRun(LStrip(Drop(s, DigitRun(s)))) + 1,
                   SpacedDigitsAt(s))
         \o JoinDigits(Drop(s, SpacedDigitsAt(s)))
    ELSE <<Head(s)>> \o JoinDigits(Tail(s))

post_process_speech(text) ==
    IF text = <<>> THEN text
    ELSE Strip(JoinDigits(SubPoint(SubPoint(ApplyCorrections(Upper(text), 1),
                                            <<"P", "O", "I", "N", "T">>),
                                   <<"D", "O", "T">>)))

(***************************************************************************)
(* get_voice_input.  An attempt listens and recognizes; its outcome is one  *)
(* of the exceptions, no text, or a text.                                   *)
(***************************************************************************)
SpokenKitchen == <<"k", "i", "t", "c", "h", "e", "n", " ", "1", "5", "0", " ", "p", "o", "i", "n", "t", " ", "5">>
SpokenSpelled == <<"w", " ", "m", " ", "0", " ", "0", " ", "1", " ", "o", "n", "e", " ", "f", "i", "v", "e", " ", "z", "e", "r", "o", " ", "l", "i", "t", "e", "r", "s">>
SpokenPlain == <<"W", "M", "0", "0", "1", " ", "1", "5", "0">>
SpokenBlank == <<" ">>

SpokenTexts == {SpokenKitchen, SpokenSpelled, SpokenPlain, SpokenBlank}

ProcessedTable == [t \in SpokenTexts |-> post_process_speech(t)] @@ <<>>

\* what listen and _recognize_with_engine can do in one attempt
Heard(t) == [kind |-> "text", text |-> t]
Unheard(kind) == [kind |-> kind, text |-> <<>>]

AttemptOutcomes ==
    {Unheard("WaitTimeoutError"), Unheard("UnknownValueError"), Unheard("RequestError"),
     Unheard("Exception"), Unheard("None"), Heard(<<>>)}
    \cup {Heard(t) : t \in SpokenTexts}

Slept == Unheard("sleep")

MaxRetries == 3

\* for attempt in range(retries)
MoreAttempts_one_more(v) == v.attempt <= v.retries

MoreAttempts(v) == v.attempt < v.retries

\* `if text:` of the recognized text
Recognized(o) == o.kind = "text" /\ o.text # <<>>

\* return processed_text if it differs from text, else text
ReturnedText(text) == IF ProcessedTable[text] # text THEN ProcessedTable[text] ELSE text

restvars == <<now, raw, calls, pc, step, st, decisions, hist, hist0, result, prev, lc, conc>>

\* handler.get_voice_input(retries = n), or the module-level get_voice_input()
VoiceCall(n, wrapped) ==
    /\ voice.pc = "idle"
    /\ wrapped => n = 3
    /\ voice' = IF ~voice.available \/ ~voice.microphone
                THEN [voice EXCEPT !.pc = "returned", !.wrapped = wrapped, !.retries = n]
                ELSE [voice EXCEPT !.pc = "loop", !.wrapped = wrapped, !.retries = n]
    /\ UNCHANGED restvars

\* one pass of the loop body up to the except clauses
VoiceAttempt(o) ==
    /\ voice.pc = "loop"
    /\ MoreAttempts(voice)
    /\ voice' = IF Recognized(o)
                THEN [voice EXCEPT !.log = Append(@, o), !.pc = "returned",
                                   !.result = Some(ReturnedText(o.text))]
                ELSE IF voice.attempt < voice.retries - 1
                THEN [voice EXCEPT !.log = Append(@, o), !.pc = "sleep"]
                ELSE [voice EXCEPT !.log = Append(@, o), !.attempt = @ + 1]
    /\ UNCHANGED restvars

\* time.sleep(2)
VoiceSleep ==
    /\ voice.pc = "sleep"
    /\ voice' = [voice EXCEPT !.log = Append(@, Slept), !.pc = "loop", !.attempt = @ + 1]
    /\ UNCHANGED restvars

\* the loop is over: return None
VoiceGiveUp ==
    /\ voice.pc = "loop"
    /\ ~MoreAttempts(voice)
    /\ voice' = [voice EXCEPT !.pc = "returned"]
    /\ UNCHANGED restvars

\* return result or ""
VoiceWrapperReturn ==
    /\ voice.pc = "returned"
    /\ voice.wrapped
    /\ voice' = [voice EXCEPT !.pc = "handed",
                              !.text = IF IsNone(voice.result) \/ Val(voice.result) = <<>>
                                       THEN Some(<<>>) ELSE voice.result]
    /\ UNCHANGED restvars

InitVoice ==
    /\ now = Dates[1]
    /\ raw = <<>>
    /\ calls = MaxCalls
    /\ pc = [a \in Agents |-> "idle"]
    /\ step = [a \in Agents |-> 1]
    /\ st = [a \in Agents |-> FreshState(<<>>)]
    /\ decisions = [a \in Agents |-> <<>>]
    /\ hist = [a \in Agents |-> <<>>]
    /\ hist0 = [a \in Agents |-> <<>>]
    /\ result = [a \in Agents |-> NoResult]
    /\ prev = [a \in Agents |-> NoPrev]
    /\ lc = FreshLC
    /\ conc = NoCallers
    /\ \E available \in BOOLEAN, microphone \in BOOLEAN :
           /\ microphone => available
           /\ voice = VoiceHandler(available, microphone)

NextVoice ==
    \/ \E n \in 0..MaxRetries, wrapped \in BOOLEAN : VoiceCall(n, wrapped)
    \/ \E o \in AttemptOutcomes : VoiceAttempt(o)
    \/ VoiceSleep
    \/ VoiceGiveUp
    \/ VoiceWrapperReturn

SpecVoice == InitVoice /\ [][NextVoice]_vars

(***************************************************************************)
(* Instances whose parsing_history is full.  The history holds HistoryCap  *)
(* signatures, the next new one cuts it to the last HistoryKeep.  One of   *)
(* the signatures is that of a reading the inputs can submit again; it     *)
(* stands where the cut just keeps it or just drops it.                    *)
(***************************************************************************)
RememberedReading == Signature("WM001", 15050, FormatDate(Dates[2]))

MemoryPlaces == {HistoryCap - HistoryKeep + 1, HistoryCap - HistoryKeep + 2}

MemoryHistory(p) ==
    [i \in 1..HistoryCap |->
        IF i = p THEN RememberedReading
        ELSE Signature("WM005", i * 100, <<"2", "0", "2", "4", "-", "1", "2", "-", "3", "1">>)]

\* the remembered reading, other readings, and texts that end without success
MemoryInputs ==
    {JoinFrags({4, 7}), KitchenExample, TodayExample, NoiseExample, Fragments[1]}

InitMemory ==
    \E p \in MemoryPlaces :
        /\ now = Dates[1]
        /\ raw = <<>>
        /\ calls = 0
        /\ pc = [a \in Agents |-> "idle"]
        /\ step = [a \in Agents |-> 1]
        /\ st = [a \in Agents |-> FreshState(<<>>)]
        /\ decisions = [a \in Agents |-> <<>>]
        /\ hist = [a \in Agents |-> MemoryHistory(p)]
        /\ hist0 = [a \in Agents |-> MemoryHistory(p)]
        /\ result = [a \in Agents |-> NoResult]
        /\ prev = [a \in Agents |-> NoPrev]
        /\ lc = [FreshLC EXCEPT !.hist = MemoryHistory(p)]
        /\ conc = NoCallers
        /\ voice = NoVoice

NextMemory ==
    \/ CanBegin /\ \E r \in MemoryInputs, i \in 1..Len(Dates) : Begin(r, Dates[i])
    \/ \E a \in Agents : CleanText(a)
    \/ \E a \in Agents : IdentifyMeter(a)
    \/ \E a \in Agents : ExtractReading(a)
    \/ \E a \in Agents : IdentifyUnit(a)
    \/ \E a \in Agents : ParseDate(a)
    \/ \E a \in Agents : Validate(a)
    \/ \E a \in Agents : Fail(a)
    \/ \E a \in Agents : Complete(a)
    \/ \E a \in Agents : Exhausted(a)
    \/ \E answer \in LLMAnswers : LangChainParse(answer)

SpecMemory == InitMemory /\ [][NextMemory]_vars

(***************************************************************************)
(* Vocabulary of the properties.                                            *)
(***************************************************************************)
HasResult(a) == pc[a] = "returned" /\ result[a].kind = "result"
Cleaned(a) == ~IsNone(st[a].cleaned_text)
CleanedOf(a) == Val(st[a].cleaned_text)
Blank(t) == \A i \in 1..Len(t) : IsSpace(t[i])
Decided(a, action) == \E i \in 1..Len(decisions[a]) : decisions[a][i] = action
IsPrefix(u, v) == Len(u) <= Len(v) /\ SubSeq(v, 1, Len(u)) = u
MinOf(S) == CHOOSE x \in S : \A y \in S : x <= y
FirstPos(text, key) ==
    MinOf({i \in 1..Len(text) : i + Len(key) - 1 <= Len(text)
                                 /\ SubSeq(text, i, i + Len(key) - 1) = key})

MeterWarning == Warn("Could not identify meter tag")
ReadingWarning == Warn("No numeric reading detected")
FailWarning == Warn("Parsing failed - insufficient data")

\* which catalog tags and aliases occur in a cleaned text, or resemble it
SubstringTags ==
    [t \in CleanedInputs |-> {k \in 1..Len(meter_tags) : Contains(t, meter_tags[k].key)}] @@ <<>>
SubstringAliases ==
    [t \in CleanedInputs |-> {k \in 1..Len(name_to_tag) : Contains(t, name_to_tag[k].key)}] @@ <<>>
SimilarTags ==
    [t \in CleanedInputs |->
        {k \in 1..Len(meter_tags) : ScoreGE(ratio(meter_tags[k].key, t), Threshold)}] @@ <<>>
SimilarAliases ==
    [t \in CleanedInputs |->
        {k \in 1..Len(name_to_tag) : ScoreGE(ratio(name_to_tag[k].key, t), Threshold)}] @@ <<>>

NoTagTexts == {t \in CleanedInputs : SubstringTags[t] = {} /\ SimilarTags[t] = {}}
NoMatchTexts == {t \in NoTagTexts : SubstringAliases[t] = {} /\ SimilarAliases[t] = {}}
NoDigitTexts == {t \in CleanedInputs : \A i \in 1..Len(t) : ~IsDigit(t[i])}

\* texts whose date is decided by YESTERDAY
YesterdayTexts ==
    {t \in CleanedInputs :
        /\ Contains(t, YESTERDAY)
        /\ ~Contains(t, TODAY)
        /\ \A k \in 1..Len(date_patterns) : Search(date_patterns[k], t, 1) = <<>>}

\* the calendar day before d
DaysIn(y, m) ==
    IF m \in {4, 6, 9, 11} THEN 30
    ELSE IF m # 2 THEN 31
    ELSE IF (y % 4 = 0 /\ y % 100 # 0) \/ y % 400 = 0 THEN 29 ELSE 28

DayBefore(d) ==
    IF d.d > 1 THEN [d EXCEPT !.d = @ - 1]
    ELSE IF d.m > 1 THEN [d EXCEPT !.m = @ - 1, !.d = DaysIn(d.y, d.m - 1)]
    ELSE [y |-> d.y - 1, m |-> 12, d |-> 31]

(***************************************************************************)
(* C1: a returned result has success = true exactly when its meter tag is   *)
(* one of the catalog tags WM001..WM005 and its reading value is strictly   *)
(* positive; a successful result never carries the description 'Unknown     *)
(* Meter'.  Both agents.                                                    *)
(***************************************************************************)
C1_SuccessIffKnownAndPositive ==
    \A a \in Agents :
        HasResult(a) =>
            /\ result[a].success = "True" <=>
                   /\ ~IsNone(result[a].meter.tag)
                   /\ Val(result[a].meter.tag) \in CanonicalTags
                   /\ ~IsNone(result[a].reading.value)
                   /\ Val(result[a].reading.value) > 0
            /\ result[a].success = "True" => result[a].meter.description # "Unknown Meter"

(***************************************************************************)
(* C2: when the cleaned text has no canonical tag, by substring or by       *)
(* similarity, but contains an alias, IDENTIFY_METER stores the canonical   *)
(* tag an alias in the text maps to, not the alias; the Kitchen example     *)
(* yields WM001, 150.5, cubic_meters and success.  Both agents.             *)
(***************************************************************************)
C2_AliasStoredAsTag ==
    \A a \in Agents :
        /\ (Cleaned(a) /\ ~IsNone(st[a].meter_tag)
              /\ CleanedOf(a) \in NoTagTexts /\ SubstringAliases[CleanedOf(a)] # {})
           => Val(st[a].meter_tag) \in
                  {name_to_tag[k].value : k \in SubstringAliases[CleanedOf(a)]}
        /\ (pc[a] = "returned" /\ raw = KitchenExample)
           => /\ result[a].kind = "result"
              /\ result[a].meter.tag = Some("WM001")
              /\ result[a].reading.value = Some(15050)
              /\ result[a].reading.unit = Some("cubic_meters")
              /\ result[a].success = "True"

(***************************************************************************)
(* C3: when a call repeats the input of the previous call on the same       *)
(* instance and date, and that previous call succeeded, the previous        *)
(* result carried no 'Potential duplicate reading' warning and the new one  *)
(* carries it exactly once.  Both agents.                                   *)
(***************************************************************************)
C3_DuplicateOnSecondCallOnly ==
    \A a \in Agents :
        (HasResult(a) /\ prev[a].same /\ prev[a].success = "True")
        => /\ prev[a].dups = 0
           /\ CountOf(DuplicateWarning, result[a].warnings) = 1

(***************************************************************************)
(* C4: when the cleaned text is empty or whitespace-only the decisions are  *)
(* CLEAN_TEXT then FAIL, and the result has success false (the boolean),    *)
(* confidence 0, the single warning 'Parsing failed - insufficient data',   *)
(* no meter tag, value, unit or date; the history is as the call found it.  *)
(***************************************************************************)
C4_EmptyTextFails ==
    \A a \in Agents :
        (pc[a] # "loop" /\ Cleaned(a) /\ Blank(CleanedOf(a)))
        => /\ decisions[a] = <<"CLEAN_TEXT", "FAIL">>
           /\ HasResult(a)
           /\ result[a].success = "False"
           /\ result[a].confidence = 0
           /\ result[a].warnings = <<FailWarning>>
           /\ IsNone(result[a].meter.tag)
           /\ IsNone(result[a].reading.value)
           /\ IsNone(result[a].reading.unit)
           /\ IsNone(result[a].reading.date)
           /\ hist[a] = hist0[a]

(***************************************************************************)
(* C5: parse_reading never lets an exception reach its caller; a fault in   *)
(* a stage ends the call with a result that has success false and an error  *)
(* field.  Both agents.                                                     *)
(***************************************************************************)
C5_NoExceptionEscapes ==
    \A a \in Agents :
        /\ pc[a] # "raised"
        /\ (pc[a] = "returned" /\ result[a].kind # "result")
           => result[a].kind = "error" /\ result[a].success = "False"

(***************************************************************************)
(* C6: on a text whose date is decided by YESTERDAY, PARSE_DATE yields the  *)
(* calendar day before the current date, on every current date (the 1st of  *)
(* a month and 1 January included), and never faults.  Both agents.         *)
(***************************************************************************)
C6_YesterdayIsTheDayBefore ==
    \A a \in Agents :
        (Cleaned(a) /\ CleanedOf(a) \in YesterdayTexts /\ Decided(a, "PARSE_DATE"))
        => /\ pc[a] # "raised"
           /\ result[a].kind # "error"
           /\ st[a].date = Some(FormatDate(DayBefore(now)))

(***************************************************************************)
(* C7: within a parse warnings are only appended, and a parse whose         *)
(* cleaned text is not blank ends with a result after all six stages,       *)
(* with meter tag, reading value, unit and date all present.  Both agents.  *)
(***************************************************************************)
SixStages ==
    {"CLEAN_TEXT", "IDENTIFY_METER", "EXTRACT_READING", "IDENTIFY_UNIT", "PARSE_DATE", "VALIDATE"}

C7_Step ==
    \A a \in Agents :
        /\ calls' = calls => IsPrefix(st[a].warnings, st'[a].warnings)
        /\ (pc[a] = "loop" /\ pc'[a] # "loop" /\ Cleaned(a) /\ ~Blank(CleanedOf(a)))
           => /\ pc'[a] = "returned"
              /\ result'[a].kind = "result"
              /\ SixStages \subseteq Range(decisions'[a])
              /\ ~IsNone(result'[a].meter.tag)
              /\ ~IsNone(result'[a].reading.value)
              /\ ~IsNone(result'[a].reading.unit)
              /\ ~IsNone(result'[a].reading.date)
              /\ IsPrefix(st[a].warnings, result'[a].warnings)

C7_AllStagesRun == [][C7_Step]_vars

(***************************************************************************)
(* C8: on a fresh instance, a text that is not blank, has no digit and      *)
(* matches no tag or alias gives success false, tag UNKNOWN, value 0.0 and  *)
(* exactly the two warnings 'Could not identify meter tag' and 'No numeric  *)
(* reading detected'.  Both agents.                                         *)
(***************************************************************************)
C8_NoMeterNoReading ==
    \A a \in Agents :
        (HasResult(a) /\ calls = 1 /\ ~Blank(CleanedOf(a))
            /\ CleanedOf(a) \in NoMatchTexts \cap NoDigitTexts)
        => /\ result[a].success = "False"
           /\ result[a].meter.tag = Some("UNKNOWN")
           /\ result[a].reading.value = Some(0)
           /\ Len(result[a].warnings) = 2
           /\ Range(result[a].warnings) = {MeterWarning, ReadingWarning}

(***************************************************************************)
(* C9: when no tag and no alias is a substring of the cleaned text and      *)
(* none reaches similarity 0.6, IDENTIFY_METER stores the marker UNKNOWN,   *)
(* the next decision is EXTRACT_READING, 'Could not identify meter tag' is  *)
(* in the warnings exactly once, the stage adds nothing to confidence, and  *)
(* every result returned has success false, whatever number is found.       *)
(***************************************************************************)
C9_UnknownMeter ==
    \A a \in Agents :
        (Cleaned(a) /\ CleanedOf(a) \in NoMatchTexts /\ ~IsNone(st[a].meter_tag))
        => /\ st[a].meter_tag = Some("UNKNOWN")
           /\ CountOf(MeterWarning, st[a].warnings) = 1
           /\ decisions[a] = <<"CLEAN_TEXT", "IDENTIFY_METER">>
              => /\ st[a].confidence = 0
                 /\ pc[a] = "loop"
                 /\ Think(a, st[a]) = "EXTRACT_READING"
           /\ st[a].confidence <= Conf(4) + Conf(2) + Conf(1)
           /\ pc[a] = "returned" => result[a].success = "False"
           /\ HasResult(a)
              => /\ result[a].meter.tag = Some("UNKNOWN")
                 /\ CountOf(MeterWarning, result[a].warnings) = 1

\* reached: a result for an unmatched text in which a positive number was found
C9_Witness ==
    \E a \in Agents :
        /\ HasResult(a)
        /\ CleanedOf(a) \in NoMatchTexts
        /\ ~IsNone(result[a].reading.value)
        /\ Val(result[a].reading.value) > 0
        /\ result[a].success = "False"

(***************************************************************************)
(* C10: when a canonical tag is a substring of the cleaned text,            *)
(* IDENTIFY_METER stores the first such tag in catalog order, wherever the  *)
(* tags stand in the text and whatever alias or similar tag the text also   *)
(* holds.  Both agents.                                                     *)
(***************************************************************************)
C10_FirstCatalogTagWins ==
    \A a \in Agents :
        (Cleaned(a) /\ SubstringTags[CleanedOf(a)] # {} /\ ~IsNone(st[a].meter_tag))
        => /\ st[a].meter_tag = Some(meter_tags[MinOf(SubstringTags[CleanedOf(a)])].name)
           /\ HasResult(a)
              => result[a].meter.tag = Some(meter_tags[MinOf(SubstringTags[CleanedOf(a)])].name)

\* reached: WM003 stands before WM001 in the text and WM001 is returned
C10_Witness ==
    \E a \in Agents :
        /\ HasResult(a)
        /\ SubstringTags[CleanedOf(a)] = {1, 3}
        /\ FirstPos(CleanedOf(a), meter_tags[3].key) < FirstPos(CleanedOf(a), meter_tags[1].key)
        /\ result[a].meter.tag = Some("WM001")

(***************************************************************************)
(* C11: EXTRACT_READING sets the reading value to the largest numeric token *)
(* of the cleaned text (a maximal run of digits with, when a point follows  *)
(* it, the digits after the point) and adds 0.4 to confidence; without a    *)
(* numeric token it sets the value to 0.0, appends 'No numeric reading      *)
(* detected' and leaves confidence as it was.                               *)
(***************************************************************************)
\* the last position of the run of digits that starts at i (i - 1: no digit)
RECURSIVE RunEnd(_, _)
RunEnd(t, i) == IF i <= Len(t) /\ IsDigit(t[i]) THEN RunEnd(t, i + 1) ELSE i - 1

\* a decimal part in hundredths
Hundredths(f) ==
    IF Len(f) = 0 THEN 0
    ELSE IF Len(f) = 1 THEN DigitVal(f[1]) * 10
    ELSE DigitVal(f[1]) * 10 + DigitVal(f[2])

\* the values of the numeric tokens of t from position i on
RECURSIVE TokenValues(_, _)
TokenValues(t, i) ==
    IF i > Len(t) THEN {}
    ELSE IF ~IsDigit(t[i]) THEN TokenValues(t, i + 1)
    ELSE LET j == RunEnd(t, i)
             k == IF j < Len(t) /\ t[j + 1] = "." THEN RunEnd(t, j + 2) ELSE j
         IN  {DigitsToNat(SubSeq(t, i, j)) * 100 + Hundredths(SubSeq(t, j + 2, k))}
                 \cup TokenValues(t, k + 1)

NumericTokens == [t \in CleanedInputs |-> TokenValues(t, 1)] @@ <<>>

Largest(S) == CHOOSE x \in S : \A y \in S : y <= x

C11_Step ==
    \A a \in Agents :
        decisions'[a] = Append(decisions[a], "EXTRACT_READING")
        => IF NumericTokens[CleanedOf(a)] # {}
           THEN /\ st'[a].reading_value = Some(Largest(NumericTokens[CleanedOf(a)]))
                /\ st'[a].confidence = st[a].confidence + Conf(4)
                /\ st'[a].warnings = st[a].warnings
           ELSE /\ st'[a].reading_value = Some(0)
                /\ st'[a].warnings = Append(st[a].warnings, ReadingWarning)
                /\ st'[a].confidence = st[a].confidence

C11_LargestNumberIsTheReading == [][C11_Step]_vars

\* both agents took 240 from '12 5.5 240'
C11_Witness ==
    \A a \in Agents :
        /\ Cleaned(a)
        /\ CleanedOf(a) = clean_text_tool(NumbersExample)
        /\ NumericTokens[CleanedOf(a)] = {1200, 550, 24000}
        /\ Decided(a, "EXTRACT_READING")
        /\ st[a].reading_value = Some(24000)
        /\ st[a].confidence >= Conf(4)

(***************************************************************************)
(* C12: every date of a returned result is written YYYY-MM-DD, whichever    *)
(* of the four patterns, TODAY, YESTERDAY or the default produced it.       *)
(***************************************************************************)
IsIsoDate(d) ==
    /\ Len(d) = 10
    /\ \A i \in {1, 2, 3, 4, 6, 7, 9, 10} : IsDigit(d[i])
    /\ d[5] = "-"
    /\ d[8] = "-"

C12_DatesAreIso ==
    \A a \in Agents :
        (HasResult(a) /\ ~IsNone(result[a].reading.date))
        => IsIsoDate(Val(result[a].reading.date))

(***************************************************************************)
(* C13: PARSE_DATE stores the first match of the first of the forms         *)
(* YYYY-MM-DD, MM/DD/YYYY, M/D/YYYY, MM-DD-YYYY, in this order, that occurs  *)
(* in the cleaned text, as it is written; without any, the current date     *)
(* when the text has TODAY, else the day before when it has YESTERDAY, else  *)
(* the current date.  So a written date wins over TODAY and YESTERDAY, and  *)
(* TODAY over YESTERDAY.  Both agents.                                      *)
(***************************************************************************)
Digits(n) == [i \in 1..n |-> "d"]
DateShape(a, sep, b, c) == Digits(a) \o <<sep>> \o Digits(b) \o <<sep>> \o Digits(c)

\* the written forms, "d" standing for a digit
DateForms ==
    << {DateShape(4, "-", 2, 2)},
       {DateShape(2, "/", 2, 4)},
       {DateShape(a, "/", b, 4) : a \in 1..2, b \in 1..2},
       {DateShape(2, "-", 2, 4)} >>

Fits(t, i, shape) ==
    /\ i + Len(shape) - 1 <= Len(t)
    /\ \A k \in 1..Len(shape) :
           IF shape[k] = "d" THEN IsDigit(t[i + k - 1]) ELSE t[i + k - 1] = shape[k]

\* the places of t where form k is written
PlacesOf(t, k) == {i \in 1..Len(t) : \E shape \in DateForms[k] : Fits(t, i, shape)}

\* the leftmost occurrence of form k in t, the longest that starts there
WrittenAt(t, k) ==
    LET i == MinOf(PlacesOf(t, k))
        n == Largest({Len(shape) : shape \in {x \in DateForms[k] : Fits(t, i, x)}})
    IN  SubSeq(t, i, i + n - 1)

FormsIn(t) == {k \in 1..Len(DateForms) : PlacesOf(t, k) # {}}

ExpectedDate ==
    [t \in CleanedInputs, d \in Range(Dates) |->
        IF FormsIn(t) # {} THEN WrittenAt(t, MinOf(FormsIn(t)))
        ELSE IF Contains(t, TODAY) THEN FormatDate(d)
        ELSE IF Contains(t, YESTERDAY) THEN FormatDate(DayBefore(d))
        ELSE FormatDate(d)] @@ <<>>

C13_DatePriority ==
    \A a \in Agents :
        (Cleaned(a) /\ ~IsNone(st[a].date))
        => /\ Val(st[a].date) = ExpectedDate[CleanedOf(a), now]
           /\ HasResult(a) => result[a].reading.date = st[a].date

\* '... 01/15/2025 2025-01-16 TODAY' gave 2025-01-16 on both agents
C13_Witness ==
    \A a \in Agents :
        /\ HasResult(a)
        /\ st[a].raw_input = IsoFirstExample
        /\ Contains(CleanedOf(a), TODAY)
        /\ FormsIn(CleanedOf(a)) = {1, 2, 3}
        /\ result[a].reading.date = Some(<<"2", "0", "2", "5", "-", "0", "1", "-", "1", "6">>)

(***************************************************************************)
(* C14: IDENTIFY_UNIT stores the canonical unit of the first variant, in    *)
(* table order, that is a substring of the cleaned text, and cubic_meters   *)
(* when none is; the variant that decides is never shorter than a variant   *)
(* of another canonical unit that the text also contains (a text with       *)
(* GALLONS gives gallons).  Both agents.                                    *)
(***************************************************************************)
VariantsIn ==
    [t \in CleanedInputs |-> {k \in 1..Len(unit_map) : Contains(t, unit_map[k].variant)}] @@ <<>>

FirstVariant(t) == unit_map[MinOf(VariantsIn[t])]

C14_UnitByTableOrder ==
    \A a \in Agents :
        (Cleaned(a) /\ ~IsNone(st[a].unit))
        => IF VariantsIn[CleanedOf(a)] = {} THEN st[a].unit = Some("cubic_meters")
           ELSE /\ st[a].unit = Some(FirstVariant(CleanedOf(a)).standard)
                /\ \A j \in VariantsIn[CleanedOf(a)] :
                       Len(unit_map[j].variant) > Len(FirstVariant(CleanedOf(a)).variant)
                       => unit_map[j].standard = FirstVariant(CleanedOf(a)).standard

(***************************************************************************)
(* C15: a parse ends with the confidence 0.3 (meter identified) + 0.4 (a    *)
(* number found) + 0.2 + 0.1 when the cleaned text is not blank, one of     *)
(* 0.3, 0.6, 0.7, 1.0, and with 0.0 when it fails on a blank text; VALIDATE *)
(* and the duplicate check add nothing.  Both agents.                       *)
(***************************************************************************)
Ended(a) == pc[a] \in {"returned", "raised"}

ExpectedConfidence(a) ==
    IF Blank(CleanedOf(a)) THEN 0
    ELSE (IF result[a].meter.tag # Some("UNKNOWN") THEN Conf(3) ELSE 0)
         + (IF NumericTokens[CleanedOf(a)] # {} THEN Conf(4) ELSE 0)
         + Conf(2) + Conf(1)

C15_FinalConfidence ==
    \A a \in Agents :
        Ended(a) => /\ HasResult(a)
                    /\ result[a].confidence = ExpectedConfidence(a)

(***************************************************************************)
(* C16: the reading history of every agent variant holds at most 100        *)
(* signatures at all times; an insertion that makes it longer than 100      *)
(* leaves its 50 most recent entries in their order, the inserted signature *)
(* last, and any other insertion only appends.                              *)
(***************************************************************************)
\* h2 is h, or h after one insertion under the cap
InsertedUnderCap(h, h2) ==
    /\ Len(h2) <= 100
    /\ h2 # h => /\ h2 # <<>>
                 /\ IF Len(h) + 1 > 100
                    THEN h2 = SubSeq(Append(h, h2[Len(h2)]), Len(h) + 1 - 49, Len(h) + 1)
                    ELSE h2 = Append(h, h2[Len(h2)])

C16_Step ==
    /\ \A a \in Agents : InsertedUnderCap(hist[a], hist'[a])
    /\ InsertedUnderCap(lc.hist, lc'.hist)

C16_HistoryCapped == [][C16_Step]_vars

\* both local agents went from 99 signatures to 100 and then to the last 50
C16_Witness ==
    \A a \in Agents :
        /\ calls = 2
        /\ pc[a] = "returned"
        /\ Len(hist0[a]) = 100
        /\ Len(hist[a]) = 50
        /\ SubSeq(hist[a], 1, 49) = SubSeq(hist0[a], 52, 100)
        /\ ~InHistory(hist[a][50], hist0[a])

(***************************************************************************)
(* C17: the duplicate check runs once per parse and only for a successful   *)
(* one: a result without success leaves the history as the call found it    *)
(* and has no 'Potential duplicate reading' warning; a successful one       *)
(* either has the warning once and the history unchanged, or no warning     *)
(* and its signature inserted.  Both agents.                                *)
(***************************************************************************)
Duplicates(a) == CountOf(DuplicateWarning, result[a].warnings)

C17_DuplicateCheckOnceOnSuccess ==
    \A a \in Agents :
        HasResult(a)
        => IF result[a].success # "True"
           THEN hist[a] = hist0[a] /\ Duplicates(a) = 0
           ELSE \/ Duplicates(a) = 1 /\ hist[a] = hist0[a]
                \/ Duplicates(a) = 0 /\ InsertedUnderCap(hist0[a], hist[a]) /\ hist[a] # hist0[a]

(***************************************************************************)
(* C18: on the same input, a fresh WaterMeterAgent and a fresh              *)
(* LocalLangChainStyleAgent return the same success flag, confidence,       *)
(* meter tag and description, reading value, unit, date and warnings.       *)
(***************************************************************************)
SharedFields(res) ==
    <<res.success, res.confidence, res.meter, res.reading, res.warnings>>

C18_AgentsAgree ==
    (calls = 1 /\ \A a \in Agents : HasResult(a))
    => SharedFields(result[WMA]) = SharedFields(result[LLA])

(***************************************************************************)
(* C19: within one parse the actions run in the order CLEAN_TEXT,           *)
(* IDENTIFY_METER, EXTRACT_READING, IDENTIFY_UNIT, PARSE_DATE, VALIDATE,    *)
(* none of them twice; a parse of a text that is not blank, once ended,     *)
(* has run VALIDATE exactly once.  Both agents.                             *)
(***************************************************************************)
StageOrder ==
    <<"CLEAN_TEXT", "IDENTIFY_METER", "EXTRACT_READING", "IDENTIFY_UNIT", "PARSE_DATE", "VALIDATE">>

\* the actions among the decisions of a parse, COMPLETE and FAIL set aside
ActionsOf(a) == SelectSeq(decisions[a], LAMBDA x : x \notin {"COMPLETE", "FAIL"})

C19_EachActionOnce ==
    \A a \in Agents :
        /\ IsPrefix(ActionsOf(a), StageOrder)
        /\ (HasResult(a) /\ ~Blank(CleanedOf(a))) => CountOf("VALIDATE", decisions[a]) = 1

(***************************************************************************)
(* C20: on a text that is not blank, the decision after the six stages is   *)
(* COMPLETE: the loop ends at its 7th decision, never because the 8 steps   *)
(* are used up.  Both agents.                                               *)
(***************************************************************************)
C20_Step ==
    \A a \in Agents :
        /\ (decisions[a] = StageOrder /\ decisions'[a] # decisions[a])
           => decisions'[a] = Append(StageOrder, "COMPLETE")
        /\ (pc[a] = "loop" /\ pc'[a] = "returned" /\ Cleaned(a) /\ ~Blank(CleanedOf(a))
            /\ result'[a].kind = "result")
           => (step[a] = 7 /\ decisions'[a] = Append(StageOrder, "COMPLETE"))

C20_CompleteEndsTheLoop == [][C20_Step]_vars

(***************************************************************************)
(* C21: the loop of parse_reading ends after at most 8 decisions and at     *)
(* most 8 executed actions, whatever the input, and a result is then        *)
(* assembled and returned.  Both agents.                                    *)
(***************************************************************************)
ExecutedActions(a) == Len(ActionsOf(a))

C21_Step ==
    \A a \in Agents :
        /\ Len(decisions'[a]) <= 8
        /\ ExecutedActions(a)' <= 8
        /\ (pc[a] = "loop" /\ pc'[a] # "loop")
           => (pc'[a] = "returned" /\ result'[a].kind = "result")

C21_LoopEndsWithResult == [][C21_Step]_vars

(***************************************************************************)
(* C22: every decision is the one of the first unmet precondition of the    *)
(* state it is taken in: CLEAN_TEXT when cleaned_text is null; else, when   *)
(* meter_tag is null, FAIL on a blank cleaned text and IDENTIFY_METER       *)
(* otherwise; else EXTRACT_READING when reading_value is null; else         *)
(* IDENTIFY_UNIT when unit is null; else PARSE_DATE when date is null.      *)
(* Both agents.                                                             *)
(***************************************************************************)
\* the decision of the first unmet precondition of s ("": all five are met)
FirstUnmet(s) ==
    IF s.cleaned_text = None THEN "CLEAN_TEXT"
    ELSE IF s.meter_tag = None
         THEN IF Blank(Val(s.cleaned_text)) THEN "FAIL" ELSE "IDENTIFY_METER"
    ELSE IF s.reading_value = None THEN "EXTRACT_READING"
    ELSE IF s.unit = None THEN "IDENTIFY_UNIT"
    ELSE IF s.date = None THEN "PARSE_DATE"
    ELSE ""

C22_Step ==
    \A a \in Agents :
        (Len(decisions'[a]) = Len(decisions[a]) + 1 /\ FirstUnmet(st[a]) # "")
        => decisions'[a] = Append(decisions[a], FirstUnmet(st[a]))

C22_FirstUnmetDecides == [][C22_Step]_vars

\* both agents went through the five decisions in order, up to the date
C22_Witness ==
    \A a \in Agents :
        /\ Len(decisions[a]) >= 5
        /\ SubSeq(decisions[a], 1, 5) = SubSeq(StageOrder, 1, 5)
        /\ st[a].date # None
        /\ FirstUnmet(st[a]) = ""

(***************************************************************************)
(* C23: CLEAN_TEXT is idempotent: cleaning the cleaned text of any raw      *)
(* input gives the cleaned text again, also when the input begins or ends   *)
(* with a removed special character or has one between spaces.              *)
(***************************************************************************)
C23_CleanIdempotent ==
    \A a \in Agents :
        Cleaned(a) => clean_text_tool(CleanedOf(a)) = CleanedOf(a)

(***************************************************************************)
(* C24: within a parse the confidence starts at 0, never decreases from     *)
(* step to step, changes only in IDENTIFY_METER, EXTRACT_READING,           *)
(* IDENTIFY_UNIT and PARSE_DATE, and never exceeds 1.0.  Both agents.       *)
(***************************************************************************)
ScoringStages == {"IDENTIFY_METER", "EXTRACT_READING", "IDENTIFY_UNIT", "PARSE_DATE"}

C24_Step ==
    \A a \in Agents :
        /\ st'[a].confidence <= Conf(10)
        /\ IF decisions'[a] = <<>> THEN st'[a].confidence = 0
           ELSE /\ st'[a].confidence >= st[a].confidence
                /\ st'[a].confidence # st[a].confidence
                   => \E x \in ScoringStages : decisions'[a] = Append(decisions[a], x)

C24_ConfidenceOnlyGrows == [][C24_Step]_vars

\* both agents reached 1.0 through the four stages and kept it
C24_Witness ==
    \A a \in Agents :
        /\ st[a].confidence = Conf(10)
        /\ Decided(a, "VALIDATE")
        /\ HasResult(a)
        /\ result[a].confidence = Conf(10)

(***************************************************************************)
(* C25: VALIDATE only annotates: a result whose reading value lies outside  *)
(* the bounds of its unit (cubic_meters 0..1000, gallons 0..264000, liters  *)
(* 0..1000000, bounds included) carries exactly one range warning, a result *)
(* whose value lies inside carries none, and a VALIDATE step leaves meter   *)
(* tag, reading value, unit, date and confidence as they were.              *)
(***************************************************************************)
\* the bounds of the units, in hundredths
LowerBound(unit) == 0
UpperBound(unit) ==
    IF unit = "cubic_meters" THEN 100000
    ELSE IF unit = "gallons" THEN 26400000
    ELSE 100000000

OutOfBounds(value, unit) == value < LowerBound(unit) \/ value > UpperBound(unit)

IsRangeWarning(w) ==
    w.msg \in {"Value {value} {unit} is outside expected range ({description})",
               "Reading {value} {unit} is outside expected range"}

RangeWarnings(ws) == Cardinality({i \in 1..Len(ws) : IsRangeWarning(ws[i])})

Validated(a) == HasResult(a) /\ Decided(a, "VALIDATE")

C25_Annotated ==
    \A a \in Agents :
        Validated(a)
        => RangeWarnings(result[a].warnings) =
               IF OutOfBounds(Val(result[a].reading.value), Val(result[a].reading.unit))
               THEN 1 ELSE 0

C25_Frame ==
    \A a \in Agents :
        decisions'[a] = Append(decisions[a], "VALIDATE")
        => /\ st'[a].meter_tag = st[a].meter_tag
           /\ st'[a].reading_value = st[a].reading_value
           /\ st'[a].unit = st[a].unit
           /\ st'[a].date = st[a].date
           /\ st'[a].confidence = st[a].confidence
           /\ SuccessOf(st'[a]) = SuccessOf(st[a])

C25_ValidateOnlyAnnotates == [][C25_Annotated /\ C25_Frame]_vars

(***************************************************************************)
(* C26: a VALIDATE step on a unit that is not in the range table appends    *)
(* a 'cannot validate' warning, which is not the out-of-range warning.      *)
(* Both agents.                                                             *)
(***************************************************************************)
IsCannotValidate(w) ==
    w.msg \in {"Unknown unit '{unit}' - cannot validate range",
               "Unknown unit {unit} - cannot validate range"}

CannotValidate(ws) == Cardinality({i \in 1..Len(ws) : IsCannotValidate(ws[i])})

C26_Step ==
    \A a \in Agents :
        (decisions'[a] = Append(decisions[a], "VALIDATE")
         /\ Val(st[a].unit) \notin {"cubic_meters", "gallons", "liters"})
        => /\ CannotValidate(st'[a].warnings) = CannotValidate(st[a].warnings) + 1
           /\ RangeWarnings(st'[a].warnings) = RangeWarnings(st[a].warnings)

NoRepeats(h) == Cardinality({h[i] : i \in 1..Len(h)}) = Len(h)

\* the warnings a parse has collected so far, those of its result once returned
WarningsOf(a) == IF HasResult(a) THEN result[a].warnings ELSE st[a].warnings

ReadingSignature(s) == Signature(Val(s.meter_tag), Val(s.reading_value), Val(s.date))

C27_Step ==
    \A a \in Agents :
        /\ NoRepeats(hist'[a])
        /\ hist'[a] # hist[a]
           => /\ InsertedUnderCap(hist[a], hist'[a])
              /\ ~InHistory(hist'[a][Len(hist'[a])], hist[a])
              /\ hist'[a][Len(hist'[a])] = ReadingSignature(st'[a])
              /\ CountOf(DuplicateWarning, WarningsOf(a)') = CountOf(DuplicateWarning, WarningsOf(a))
        /\ (decisions'[a] # <<>>
            /\ CountOf(DuplicateWarning, WarningsOf(a)') > CountOf(DuplicateWarning, WarningsOf(a)))
           => /\ hist'[a] = hist[a]
              /\ InHistory(ReadingSignature(st'[a]), hist[a])

C27_CheckThenInsert == [][C27_Step]_vars

\* the second call with the same input: both agents warned and kept one copy
C27_Witness ==
    \A a \in Agents :
        /\ calls = 2
        /\ HasResult(a)
        /\ prev[a].same
        /\ CountOf(DuplicateWarning, result[a].warnings) >= 1
        /\ hist[a] = hist0[a]
        /\ Len(hist[a]) = 1

(***************************************************************************)
(* C28: on a given day, what parse_reading returns for an input is what a   *)
(* fresh instance returns for it, 'Potential duplicate reading' warnings    *)
(* set aside, whatever calls came before on the instance.  Both agents.     *)
(***************************************************************************)
FreshOutcome ==
    [a \in Agents, r \in Inputs, d \in Range(Dates) |-> parse_reading(a, r, d, <<>>).result] @@ <<>>

NotDuplicateWarning(w) == w # DuplicateWarning

WithoutDuplicates(res) ==
    IF res.kind = "result"
    THEN [res EXCEPT !.warnings = SelectSeq(@, NotDuplicateWarning)]
    ELSE res

C28_FreshPerCall ==
    \A a \in Agents :
        Ended(a) => WithoutDuplicates(result[a]) = WithoutDuplicates(FreshOutcome[a, raw, now])

\* a second call, on another input, on instances whose history is not empty
C28_Witness ==
    \A a \in Agents :
        /\ calls = 2
        /\ HasResult(a)
        /\ hist0[a] # <<>>
        /\ ~prev[a].same
        /\ result[a].success = "True"
        /\ result[a].warnings # FreshOutcome[a, raw, now].warnings

(***************************************************************************)
(* C29: with two callers in parse_reading of one instance, their steps      *)
(* interleaved in any way, each call ends as a call made alone does on the  *)
(* same input (tag, value, unit, date, confidence, trace; warnings of a     *)
(* duplicate set aside), and a step of one caller changes nothing of the    *)
(* other caller: parsing_history is all they share.                         *)
(***************************************************************************)
ConcEnded(t) == Caller(t).pc \in {"returned", "raised"}

C29_AsAlone ==
    \A t \in Callers :
        ConcEnded(t) =>
            WithoutDuplicates(Caller(t).result) =
                WithoutDuplicates(FreshOutcome[conc.agent, Caller(t).s.raw_input, now])

C29_Step ==
    \A t \in Callers :
        conc.caller[t]' # conc.caller[t] =>
            \A u \in Callers \ {t} : conc.caller[u]' = conc.caller[u]

C29_ConcurrentCallsIndependent == [](C29_AsAlone) /\ [][C29_Step]_vars

\* both callers passed the membership test before either appended: the
\* signature is in parsing_history twice and neither call was warned
C29_Witness ==
    /\ \A t \in Callers : Caller(t).pc = "returned" /\ Caller(t).result.success = "True"
    /\ Caller(1).s.raw_input = Caller(2).s.raw_input
    /\ ~NoRepeats(conc.parsing_history)
    /\ \A t \in Callers : ~InHistory(DuplicateWarning, Caller(t).result.warnings)

(***************************************************************************)
(* C30: when no canonical tag is a substring of the cleaned text, a tag is  *)
(* picked by similarity only at a score of 0.6 or more, the tag picked has  *)
(* the highest score, the earliest in the catalog among equals, and it is   *)
(* stored whatever alias the text holds or resembles.  When no tag is       *)
(* picked and no alias is a substring, the alias is picked by the same rule *)
(* (WaterMeterAgent stores the alias picked, the local agent its tag).      *)
(***************************************************************************)
SameScore(x, y) == x.num * y.den = y.num * x.den

\* the item of dict that the rule picks among those of S, the items of
\* score 0.6 or more
Nearest(dict, t, S) ==
    CHOOSE k \in S :
        \A j \in S :
            \/ ScoreGT(ratio(dict[k].key, t), ratio(dict[j].key, t))
            \/ SameScore(ratio(dict[k].key, t), ratio(dict[j].key, t)) /\ k <= j

NearestTag ==
    [t \in {x \in CleanedInputs : SimilarTags[x] # {}} |->
        Nearest(meter_tags, t, SimilarTags[t])] @@ <<>>

NearestAlias ==
    [t \in {x \in CleanedInputs : SimilarAliases[x] # {}} |->
        Nearest(name_to_tag, t, SimilarAliases[t])] @@ <<>>

PickedAlias(a, k) == IF a = WMA THEN name_to_tag[k].name ELSE name_to_tag[k].value

BySimilarTag(t) == SubstringTags[t] = {} /\ SimilarTags[t] # {}

BySimilarAlias(t) ==
    /\ SubstringTags[t] = {} /\ SimilarTags[t] = {}
    /\ SubstringAliases[t] = {} /\ SimilarAliases[t] # {}

C30_SimilarityFallback ==
    \A a \in Agents :
        (Cleaned(a) /\ SubstringTags[CleanedOf(a)] = {} /\ ~IsNone(st[a].meter_tag))
        => /\ BySimilarTag(CleanedOf(a))
              => st[a].meter_tag = Some(meter_tags[NearestTag[CleanedOf(a)]].name)
           /\ BySimilarAlias(CleanedOf(a))
              => st[a].meter_tag = Some(PickedAlias(a, NearestAlias[CleanedOf(a)]))
           /\ SimilarTags[CleanedOf(a)] = {}
              => Val(st[a].meter_tag) \in
                    {"UNKNOWN"} \cup
                    {PickedAlias(a, k) : k \in
                        SubstringAliases[CleanedOf(a)] \cup SimilarAliases[CleanedOf(a)]}

\* reached: the five tags are equally near the text and the first is returned
C30_Witness ==
    \A a \in Agents :
        /\ HasResult(a)
        /\ BySimilarTag(CleanedOf(a))
        /\ \A k \in 1..Len(meter_tags) :
               SameScore(ratio(meter_tags[k].key, CleanedOf(a)),
                         ratio(meter_tags[1].key, CleanedOf(a)))
        /\ result[a].meter.tag = Some("WM001")

(***************************************************************************)
(* C31: the trace the local agent returns holds one entry per executed      *)
(* action, in order: clean_text alone when the cleaned text is blank, the   *)
(* six tools from clean_text to validate_range otherwise, and tool_calls    *)
(* is the length of the trace.                                              *)
(***************************************************************************)
ToolOrder ==
    <<"clean_text", "identify_meter", "extract_numbers", "standardize_unit", "parse_date",
      "validate_range">>

TraceAsExpected(res, cleaned) ==
    /\ res.kind = "result"
    /\ res.tool_calls = Len(res.execution_trace)
    /\ res.execution_trace = IF Blank(cleaned) THEN <<"clean_text">> ELSE ToolOrder

C31_TraceOfSixTools ==
    pc[LLA] = "returned" => TraceAsExpected(result[LLA], CleanTable[raw])

(***************************************************************************)
(* C32: get_voice_input listens at most `retries` times, returns after the  *)
(* first attempt that recognizes a non-empty text with that attempt's text  *)
(* (as _post_process_speech leaves it) and listens no more, returns None    *)
(* after `retries` failed attempts, and without listening at all when       *)
(* speech recognition or the microphone is missing or retries is 0; it      *)
(* sleeps between two attempts and never after the last; the module-level   *)
(* get_voice_input returns a string, the empty one for None.                *)
(***************************************************************************)
VoiceAttempts == {i \in 1..Len(voice.log) : voice.log[i] # Slept}

VoiceOver == voice.pc \in {"returned", "handed"}

C32_Log ==
    /\ Cardinality(VoiceAttempts) <= voice.retries
    /\ \A i \in 1..Len(voice.log) :
          /\ i < Len(voice.log) => ~Recognized(voice.log[i])
          /\ (i > 1 /\ voice.log[i] # Slept) => voice.log[i - 1] = Slept
          /\ voice.log[i] = Slept
             => /\ i > 1 /\ voice.log[i - 1] # Slept
                /\ i = Len(voice.log) => voice.pc = "loop" /\ voice.attempt < voice.retries

C32_Returned ==
    VoiceOver =>
        IF ~voice.available \/ ~voice.microphone \/ voice.retries = 0
        THEN voice.log = <<>> /\ IsNone(voice.result)
        ELSE IF Recognized(voice.log[Len(voice.log)])
        THEN voice.result = Some(ProcessedTable[voice.log[Len(voice.log)].text])
        ELSE IsNone(voice.result) /\ Cardinality(VoiceAttempts) = voice.retries

C32_Handed ==
    voice.pc = "handed" =>
        voice.text = IF IsNone(voice.result) THEN Some(<<>>) ELSE voice.result

C32_VoiceAttemptsBounded == C32_Log /\ C32_Returned /\ C32_Handed

\* reached: two failed attempts, a sleep after each, the third attempt
\* recognized, and its text handed on by the module-level function
C32_Witness ==
    /\ voice.pc = "handed"
    /\ Len(voice.log) = 5
    /\ voice.log[2] = Slept /\ voice.log[4] = Slept
    /\ voice.log[5] = Heard(SpokenKitchen)
    /\ voice.text = Some(<<"K", "I", "T", "C", "H", "E", "N", " ", "M", "E", "T", "E", "R", " ",
                          "1", "5", "0", ".", "5">>)

(***************************************************************************)
(* C33: a result with success true has confidence 1.0: the meter was        *)
(* identified (0.3) and a number found (0.4), and unit (0.2) and date (0.1) *)
(* always score.  Both agents.                                              *)
(***************************************************************************)
C33_SuccessHasFullConfidence ==
    \A a \in Agents :
        (HasResult(a) /\ result[a].success = "True") => result[a].confidence = Conf(10)

C33_Witness ==
    \A a \in Agents :
        /\ HasResult(a)
        /\ result[a].success = "True"
        /\ result[a].confidence = Conf(10)
        /\ Val(result[a].reading.value) > 0
        /\ Val(result[a].meter.tag) # "UNKNOWN"

(***************************************************************************)
(* C34: every input whose cleaned text holds a canonical tag ends in a      *)
(* result with success true, also when the text holds no reading: the       *)
(* digits of the tag are a numeric token, so the reading value is at least  *)
(* the number the tag ends in.  Both agents.                                *)
(***************************************************************************)
TagNumber(k) == k * 100

C34_TagTextSucceeds ==
    \A a \in Agents :
        (Ended(a) /\ SubstringTags[CleanTable[raw]] # {})
        => /\ HasResult(a)
           /\ result[a].success = "True"
           /\ \A k \in SubstringTags[CleanTable[raw]] :
                  Val(result[a].reading.value) >= TagNumber(k)

(***************************************************************************)
(* C35: the digits of a date are numeric tokens too.  When the cleaned     *)
(* text holds an explicit date with the four-digit year Y, the reading     *)
(* value of the result is at least Y, and with the unit cubic_meters and Y *)
(* above the maximum the result carries the out-of-range warning.  Both    *)
(* agents.                                                                *)
(***************************************************************************)
\* the integer parts <<first, last>> of the numeric tokens of t from i on
RECURSIVE IntegerParts(_, _)
IntegerParts(t, i) ==
    IF i > Len(t) THEN {}
    ELSE IF ~IsDigit(t[i]) THEN IntegerParts(t, i + 1)
    ELSE IF RunEnd(t, i) < Len(t) /\ t[RunEnd(t, i) + 1] = "."
         THEN {<<i, RunEnd(t, i)>>} \cup IntegerParts(t, RunEnd(t, RunEnd(t, i) + 2) + 1)
         ELSE {<<i, RunEnd(t, i)>>} \cup IntegerParts(t, RunEnd(t, i) + 1)

\* the years <<place, year>> of the dates written in t
YearPlaces(t) ==
    {<<i + Len(shape) - 4, DigitsToNat(SubSeq(t, i + Len(shape) - 4, i + Len(shape) - 1))>> :
        <<i, shape>> \in {p \in (1..Len(t)) \X (UNION {DateForms[k] : k \in 2..4}) :
                             Fits(t, p[1], p[2])}}
    \cup {<<i, DigitsToNat(SubSeq(t, i, i + 3))>> : i \in PlacesOf(t, 1)}

WrittenYears == [t \in CleanedInputs |-> {p[2] : p \in YearPlaces(t)}] @@ <<>>

\* the years whose four digits lie in the integer part of a numeric token
TokenYears ==
    [t \in CleanedInputs |->
        {p[2] : p \in {q \in YearPlaces(t) :
                          \E r \in IntegerParts(t, 1) : r[1] <= q[1] /\ q[1] + 3 <= r[2]}}] @@ <<>>

YearAsReading(a, Y) ==
    /\ Val(result[a].reading.value) >= Y * 100
    /\ (Val(result[a].reading.unit) = "cubic_meters" /\ Y * 100 > UpperBound("cubic_meters"))
           => RangeWarnings(result[a].warnings) >= 1

\* C35 as stated: every year of a written date bounds the reading from below
C35_ReadingAtLeastYear ==
    \A a \in Agents :
        (HasResult(a) /\ Cleaned(a)) =>
            \A Y \in WrittenYears[CleanedOf(a)] : YearAsReading(a, Y)

\* C35 amended: a year bounds the reading from below when its digits are the
\* integer digits of a numeric token, not the decimals of a number before it
C35_ReadingAtLeastTokenYear ==
    \A a \in Agents :
        (HasResult(a) /\ Cleaned(a)) =>
            \A Y \in TokenYears[CleanedOf(a)] : YearAsReading(a, Y)

C35_Witness ==
    \A a \in Agents :
        /\ HasResult(a)
        /\ Cleaned(a)
        /\ \E Y \in TokenYears[CleanedOf(a)] :
               /\ Y * 100 > UpperBound("cubic_meters")
               /\ Val(result[a].reading.value) = Y * 100
        /\ \E v \in NumericTokens[CleanedOf(a)] : v > 0 /\ v < Val(result[a].reading.value)
        /\ Val(result[a].reading.unit) = "cubic_meters"
        /\ RangeWarnings(result[a].warnings) >= 1

(***************************************************************************)
(* C36: the unit stored by IDENTIFY_UNIT is always one of cubic_meters,    *)
(* gallons and liters, so within parse_reading the range table always      *)
(* holds the unit that VALIDATE looks up and no 'cannot validate' warning  *)
(* is ever appended.  Both agents.                                         *)
(***************************************************************************)
StandardUnits == {"cubic_meters", "gallons", "liters"}

C36_UnitAlwaysKnown ==
    \A a \in Agents :
        /\ ~IsNone(st[a].unit) => (Val(st[a].unit) \in StandardUnits /\ KnownUnit(Val(st[a].unit)))
        /\ CannotValidate(st[a].warnings) = 0
        /\ HasResult(a) => CannotValidate(result[a].warnings) = 0

C36_Witness ==
    /\ \A a \in Agents :
           /\ Validated(a)
           /\ result[a].reading.unit = Some("gallons")
           /\ RangeVerdict(Val(result[a].reading.value), "gallons") = "VALID"
           /\ CannotValidate(result[a].warnings) = 0

(***************************************************************************)
(* C37: IDENTIFY_UNIT stores liters for every cleaned text that holds the  *)
(* letter L anywhere and none of CU M, CUBIC M, M3 and GAL; the default    *)
(* cubic_meters is stored only for texts with no letter L and none of      *)
(* these unit tokens.  Both agents.                                        *)
(***************************************************************************)
CubicTokens == {<<"C", "U", " ", "M">>, <<"C", "U", "B", "I", "C", " ", "M">>, <<"M", "3">>}
GallonToken == <<"G", "A", "L">>
LiterWord == <<"L", "I", "T", "E", "R">>

HasCubicToken == [t \in CleanedInputs |-> \E u \in CubicTokens : Contains(t, u)] @@ <<>>
HasGallonToken == [t \in CleanedInputs |-> Contains(t, GallonToken)] @@ <<>>
HasLetterL == [t \in CleanedInputs |-> Contains(t, <<"L">>)] @@ <<>>
HasLiterWord == [t \in CleanedInputs |-> Contains(t, LiterWord)] @@ <<>>

UnitStored(a) == Cleaned(a) /\ ~IsNone(st[a].unit)

C37_LetterLGivesLiters ==
    \A a \in Agents :
        UnitStored(a) =>
            /\ (HasLetterL[CleanedOf(a)] /\ ~HasCubicToken[CleanedOf(a)]
                /\ ~HasGallonToken[CleanedOf(a)]) => Val(st[a].unit) = "liters"
            /\ (Val(st[a].unit) = "cubic_meters" /\ ~HasCubicToken[CleanedOf(a)])
                   => (~HasLetterL[CleanedOf(a)] /\ ~HasGallonToken[CleanedOf(a)])

\* liters from an L inside a word that is no unit
C37_Witness ==
    \A a \in Agents :
        /\ HasResult(a)
        /\ UnitStored(a)
        /\ HasLetterL[CleanedOf(a)]
        /\ ~HasLiterWord[CleanedOf(a)]
        /\ ~HasCubicToken[CleanedOf(a)]
        /\ ~HasGallonToken[CleanedOf(a)]
        /\ result[a].reading.unit = Some("liters")

\* the default: a text with no L and no unit token
C37_DefaultReached ==
    \A a \in Agents :
        /\ HasResult(a)
        /\ UnitStored(a)
        /\ ~HasLetterL[CleanedOf(a)]
        /\ ~HasCubicToken[CleanedOf(a)]
        /\ ~HasGallonToken[CleanedOf(a)]
        /\ result[a].reading.unit = Some("cubic_meters")

(***************************************************************************)
(* C38: the reading value of a result is never negative: numeric tokens    *)
(* carry no sign and a text without a number gives 0.0.  So no value is    *)
(* below the minimum of its range, and a result carries an out-of-range    *)
(* warning only when its value is above the maximum of its unit.  Both     *)
(* agents.                                                                 *)
(***************************************************************************)
HasReading(a) == HasResult(a) /\ ~IsNone(result[a].reading.value)

C38_ReadingNeverNegative ==
    \A a \in Agents :
        HasReading(a) =>
            /\ Val(result[a].reading.value) >= 0
            /\ Val(result[a].reading.value) >= LowerBound(Val(result[a].reading.unit))
            /\ RangeWarnings(result[a].warnings) >= 1
                   => Val(result[a].reading.value) > UpperBound(Val(result[a].reading.unit))

\* a minus sign right before a digit of the text
MinusBeforeDigit ==
    [t \in CleanedInputs |-> \E i \in 1..(Len(t) - 1) : t[i] = "-" /\ IsDigit(t[i + 1])] @@ <<>>

C38_Witness ==
    \A a \in Agents :
        /\ HasReading(a)
        /\ Cleaned(a)
        /\ MinusBeforeDigit[CleanedOf(a)]
        /\ RangeWarnings(result[a].warnings) >= 1
        /\ Val(result[a].reading.value) > UpperBound(Val(result[a].reading.unit))

\* the no-number case: 0.0, validated without a range warning
C38_ZeroReading ==
    \A a \in Agents :
        /\ HasReading(a)
        /\ Cleaned(a)
        /\ NumericTokens[CleanedOf(a)] = {}
        /\ Val(result[a].reading.value) = 0
        /\ RangeWarnings(result[a].warnings) = 0

(***************************************************************************)
(* C39: duplicate memory is bounded.  A recorded signature stays in the    *)
(* history while at most 49 other new signatures were recorded after it,   *)
(* and its resubmission is then reported as 'Potential duplicate           *)
(* reading'; a cut can drop it once 50 newer signatures are recorded, and  *)
(* its resubmission then carries no duplicate warning and records it       *)
(* again.  All three agents.                                               *)
(***************************************************************************)
\* the signatures recorded after the last occurrence of sig in h
NewerThan(sig, h) == Len(h) - Largest({i \in 1..Len(h) : h[i] = sig})

\* a step on a history keeps sig unless 50 newer signatures are recorded
Retained(sig, h, h2) ==
    (InHistory(sig, h) /\ h2 # h) =>
        /\ NewerThan(sig, h) + 1 <= HistoryKeep - 1 => InHistory(sig, h2)
        /\ ~InHistory(sig, h2) => NewerThan(sig, h) + 1 >= HistoryKeep

\* a successful result res for the reading sig, given on the history h, which
\* the call left as h2
Resubmitted(sig, res, h, h2) ==
    IF InHistory(sig, h)
    THEN CountOf(DuplicateWarning, res.warnings) >= 1 /\ h2 = h
    ELSE CountOf(DuplicateWarning, res.warnings) = 0 /\ InHistory(sig, h2)

IsReading(sig, res) ==
    /\ res.kind = "result"
    /\ res.success = "True"
    /\ Signature(Val(res.meter.tag), Val(res.reading.value), Val(res.reading.date)) = sig

C39_LocalStep(a) ==
    /\ Retained(RememberedReading, hist[a], hist'[a])
    /\ (pc[a] = "loop" /\ pc'[a] = "returned" /\ IsReading(RememberedReading, result'[a]))
           => Resubmitted(RememberedReading, result'[a], hist0[a], hist'[a])

C39_ApiStep ==
    /\ Retained(RememberedReading, lc.hist, lc'.hist)
    /\ (lc'.calls = lc.calls + 1 /\ IsReading(RememberedReading, lc'.result))
           => Resubmitted(RememberedReading, lc'.result, lc.hist, lc'.hist)

C39_Step == C39_ApiStep /\ \A a \in Agents : C39_LocalStep(a)

C39_BoundedDuplicateMemory == [][C39_Step]_vars

====
